---- MODULE Spec2Model ----
(***************************************************************************)
(* MeroShare automation: the multi-account run orchestrator                *)
(* (MeroShareAutomation, main entry point) and the result reconciliation   *)
(* engine (ResultScraper).                                                 *)
(*                                                                         *)
(* Spec      one process run: the account loop of executeAll /             *)
(*           executeResultsMode, the browser sessions, the result list     *)
(*           and the exit status.                                          *)
(* SpecCycle the reconciliation cycles (ResultScraper.execute) of one      *)
(*           account against the results file, one after the other.        *)
(* SpecSave  saveResults applied again and again to one stored list and    *)
(*           one batch.                                                    *)
(* SpecFault one reconciliation cycle on a stored list, in which a read of *)
(*           the results file can throw.                                   *)
(***************************************************************************)
EXTENDS Integers, Sequences, FiniteSets, TLC

\* ------------------------------------------------------------------ bounds
\* largest number of configured accounts (config.accounts is non-empty)
MaxAccounts == 2

\* number of distinct company names records can carry (names 1..NumNames)
NumNames == 3

\* number of distinct company names the Application Report tab lists
NumListed == 2

\* largest allotted quantity a detail page shows
MaxQty == 1

\* longest listing of the Application Report tab
MaxPage == 2

\* longest batch handed to saveResults in SpecSave
MaxBatch == 2

\* number of times SpecSave saves the batch
MaxSaves == 2

\* largest minimum quantity an application form shows
MaxShown == 3

\* largest number of issues the ASBA page lists
MaxIssues == 2

\* ---------------------------------------------------------------- constants
\* this.minQuantity = minQty || 10
DefaultMinQuantity == 10

\* acc.appliedKitta || acc.kitta || "10"
DefaultKitta == 10

\* ------------------------------------------------------------- orchestrator
VARIABLES
    resultsMode,     \* config.resultsMode
    totalAccounts,   \* config.accounts.length
    i,               \* loop index of executeAll / executeResultsMode (0-based)
    pc,              \* position of the single thread of control
    results,         \* this.results
    browserManager,  \* this.browserManager: 0 = null, else the manager's id
    bmBrowser,       \* BrowserManager.browser of that manager: 0 = null
    page,            \* this.page: 0 = null, else the browser the page is of
    networkMonitor,  \* this.networkMonitor: 0 = null, else the page it watches
    live,            \* browser processes launched and not closed
    launched,        \* number of BrowserManager instances created so far
    used,            \* history: <<browser, account>> for every page use
    attempted,       \* history: accounts whose iteration was entered
    heldAtOpen,      \* history: references held when a session was opened
    opened,          \* history: <<browser, account>> for every launch
    raised,          \* history: accounts whose workflow raised
    delays,          \* history: inter-account delays performed
    exitCode         \* process exit status, -1 while running

\* what the workflow of the account in progress did and met
VARIABLES
    acts,            \* history: actions performed on the remote pages
    challenge,       \* history: a CAPTCHA or OTP element was on the login
                     \* page when login() started
    issuesPage,      \* history: what the ASBA page listed at the lookup
    targetIssue,     \* targetIssue of executeForAccount: "unset" before the
                     \* lookup, "null", or the matched issue
    validation,      \* history: what validateKitta compared
    errorCode        \* error.code of the error the workflow raised, "" if none

acctVars == <<acts, challenge, issuesPage, targetIssue, validation, errorCode>>

\* the configuration the process runs with, and its start
VARIABLES
    envResultsMode,  \* RESULTS_MODE=true is set in .env
    rawAccounts,     \* the accounts as written in .env (ACCOUNTS)
    validated,       \* history: number of accounts validateAccount was called on
    setupFault,      \* history: what stopped the process before main ran
    loginDetects,    \* the LoginHandler in the build calls
                     \* detectSecurityChallenges
    notificationEnabled  \* config.notificationEnabled

configVars == <<envResultsMode, rawAccounts, validated, setupFault,
                loginDetects, notificationEnabled>>

VARIABLES
    securityStop,    \* history: a SECURITY_INTERRUPTION error was created
    notified,        \* history: the result lists sendBatch was called with
    notifyOutcome    \* the batch notification: "none", "pending", "failed"

notifyVars == <<notified, notifyOutcome>>

orchVars == <<resultsMode, totalAccounts, i, pc, results, browserManager,
              bmBrowser, page, networkMonitor, live, launched, used,
              attempted, heldAtOpen, opened, raised, delays, exitCode,
              acctVars, configVars, securityStop, notifyVars>>

\* ----------------------------------------------------------- reconciliation
VARIABLES
    fileState,       \* logs/application-results.json: "missing", "corrupt"
                     \* (not JSON), "null" (the JSON text null), "ok"
    ledger,          \* parsed content of the file: username -> applications
    now,             \* new Date() in two epochs: 0 before the followed
                     \* scraper first ran, 1 since
    cpc,             \* position inside ResultScraper.execute
    cUser,           \* this.account.username of the scraper
    pageCompanies,   \* result of getAllCompanyNames
    existingAtSelect,\* history: existingResults read by scrapeAllResults
    toScrape,        \* findCompaniesToScrape(...).toScrape
    cached,          \* findCompaniesToScrape(...).cached
    scraped,         \* results of scrapeAllResults
    scrapeIdx,       \* loop index i of scrapeAllResults (0-based)
    mergedApps,      \* mergedApps of the last saveResults
    priorAtSave,     \* history: previousApps read by the last saveResults
    cResult,         \* outcome of the last execute: "none", "success", "failure"
    saves,           \* history: number of saveResults calls
    writes,          \* history: number of saves that wrote the file
    firstSaved,      \* history: list persisted by the first written save
    cError,          \* message of the error execute caught, "" if none
    changes,         \* changes of the last compareResults
    priorAtCompare,  \* history: previousApps read by the last compareResults
    compares,        \* history: number of compareResults calls that returned
    fileAtBegin,     \* history: fileState when the cycle began
    persistedAtBegin,\* history: the account's stored list when the cycle began
    flaky,           \* environment: fs.readFileSync of the results file can
                     \* throw although the file is there (EIO, EMFILE, EACCES)
    ledgerAtBegin,   \* history: the content of the file when the cycle began
    observed,        \* environment: what the report pages show in every
                     \* cycle of the run, when that is held fixed
    prior            \* history: outcome of the cycle before the current
                     \* one, "none" when no earlier cycle is followed

recVars == <<fileState, ledger, now, cpc, cUser, pageCompanies,
             existingAtSelect, toScrape, cached, scraped, scrapeIdx,
             cResult, mergedApps, priorAtSave, saves, writes, firstSaved,
             cError, changes, priorAtCompare, compares, fileAtBegin,
             persistedAtBegin, flaky, ledgerAtBegin, observed, prior>>

\* the history of one cycle that the actions of a later step leave alone
cycleHist == <<cError, changes, priorAtCompare, compares, fileAtBegin,
               persistedAtBegin, flaky, ledgerAtBegin, observed, prior>>

\* ------------------------------------------------------------- submission
VARIABLES
    transactionPin,  \* this.config.transactionPin of the FormAutomation
    spc,             \* position inside FormAutomation.submit
    formPage,        \* history: what the page showed at every look of submit
    trail,           \* history: the actions submit performed on the page
    submitResult     \* what submit returned or threw

submitVars == <<transactionPin, spc, formPage, trail, submitResult>>

\* ---------------------------------------------------------- issue lookup
VARIABLES
    scrapedIssues    \* the issues scrapeIssues returned to findTargetIssue

matchVars == <<scrapedIssues>>

\* ------------------------------------------------------------------ login
VARIABLES
    lpc,             \* position inside LoginHandler.login and after it
    loginPage        \* history: what login saw on the page, and the step
                     \* that threw

loginVars == <<lpc, loginPage>>

vars == <<orchVars, recVars, submitVars, matchVars, loginVars>>

\* login has not looked at the page
NotLooked ==
    [captcha |-> FALSE, otp |-> FALSE, indicator |-> -1, url |-> "unseen",
     rejection |-> "unseen", threw |-> ""]

\* no login is followed on its own
LoginIdle == lpc = "idle" /\ loginPage = NotLooked

\* no lookup is followed on its own
MatchIdle == scrapedIssues = {}

\* the page has not been looked at
NotSeen ==
    [proceed |-> "unseen", formError |-> "unseen", pinInput |-> "unseen",
     apply |-> "unseen"]

NoIndicators ==
    [successToast |-> FALSE, errorToast |-> FALSE, dangerAlert |-> FALSE,
     text |-> ""]

NoResult == [kind |-> "none", success |-> FALSE, message |-> "", error |-> ""]

\* no submit is followed
SubmitIdle ==
    /\ transactionPin = "1234"
    /\ spc = "idle"
    /\ formPage = [seen |-> NotSeen, indicators |-> NoIndicators]
    /\ trail = <<>>
    /\ submitResult = NoResult

\* usernames that key the ledger
Users == 1..2

\* the username of the account whose scraper is followed
ScrapedUser == 1

Names == 1..NumNames

\* String.prototype.localeCompare orders by collation key; two distinct
\* strings that are canonically equivalent compare as equal
CollKey(n) == n \div 2

LocaleCompare(a, b) ==
    IF CollKey(a) < CollKey(b) THEN -1
    ELSE IF CollKey(a) > CollKey(b) THEN 1
    ELSE 0

\* /allot(ed)?/i.test(status)
IsAllotedStatus(status) == status \in {"Alloted", "Not Alloted"}

\* the record extractApplicationDetails builds from a detail page, stamped
\* by scrapeAllResults
ExtractApplicationDetails(name, status, qty, at) ==
    [companyName |-> name,
     status      |-> status,
     isAlloted   |-> IsAllotedStatus(status),
     allotedQty  |-> IF IsAllotedStatus(status) THEN qty ELSE 0,
     scrapedAt   |-> at]

\* index of the entry with this key in a Map kept in insertion order, 0 if
\* the key is absent
MapIndex(m, key) ==
    IF \E j \in 1..Len(m) : m[j].companyName = key
      THEN CHOOSE j \in 1..Len(m) : m[j].companyName = key
      ELSE 0

\* Map.prototype.set: an existing key keeps its position and gets the new
\* value, a new key goes last
MapSetAppend(m, app) == Append(m, app)

MapSetKeep(m, app) ==
    IF MapIndex(m, app.companyName) = 0 THEN Append(m, app) ELSE m

MapSet(m, app) ==
    IF MapIndex(m, app.companyName) = 0
      THEN Append(m, app)
      ELSE [m EXCEPT ![MapIndex(m, app.companyName)] = app]

\* new Map(apps.map(app => [app.companyName, app])), then set() of every
\* further record
RECURSIVE MapSetAll(_, _)
MapSetAll(m, apps) ==
    IF apps = <<>> THEN m
    ELSE MapSetAll(MapSet(m, Head(apps)), Tail(apps))

\* insertion of one record into a list sorted by localeCompare, after the
\* records that compare equal (Array.prototype.sort is stable)
InsertSortedLast(sorted, app) == Append(sorted, app)

RECURSIVE InsertSorted(_, _)
InsertSorted(sorted, app) ==
    IF sorted = <<>> THEN <<app>>
    ELSE IF LocaleCompare(app.companyName, Head(sorted).companyName) < 0
      THEN <<app>> \o sorted
      ELSE <<Head(sorted)>> \o InsertSorted(Tail(sorted), app)

RECURSIVE SortApps(_)
SortApps(apps) ==
    IF apps = <<>> THEN <<>>
    ELSE InsertSorted(SortApps(SubSeq(apps, 1, Len(apps) - 1)),
                      apps[Len(apps)])

\* saveResults: the merged list of the previous and the new records
MergeAppsConcat(previousApps, newResults) ==
    SortApps(previousApps \o newResults)

MergeApps(previousApps, newResults) ==
    SortApps(MapSetAll(MapSetAll(<<>>, previousApps), newResults))

\* loadPreviousResults: the parsed file, {} when it is absent or unparsable
LoadPreviousResults ==
    IF fileState = "ok" THEN ledger ELSE [u \in Users |-> <<>>]

\* fs.readFileSync can throw only on a file that exists; on a file that is
\* not JSON the parse throws whatever the read did
ReadOutcomes ==
    IF flaky /\ fileState \in {"ok", "null"} THEN BOOLEAN ELSE {TRUE}

\* loadPreviousResults with the outcome of the read: {} from the catch
\* clause when the read threw
LoadOutcome(readOk) ==
    IF readOk THEN LoadPreviousResults ELSE [u \in Users |-> <<>>]

\* JSON.parse gave null, which loadPreviousResults returns as it is: the
\* caller's previousData[username] is a TypeError
LoadedNull(readOk) == readOk /\ fileState = "null"

NoChanges ==
    [newAllotments |-> <<>>, updatedAllotments |-> <<>>,
     newApplications |-> <<>>]

\* { ...newResult, previousQty: previous.allotedQty }
WithPreviousQty(newResult, qty) ==
    [companyName |-> newResult.companyName,
     status      |-> newResult.status,
     isAlloted   |-> newResult.isAlloted,
     allotedQty  |-> newResult.allotedQty,
     scrapedAt   |-> newResult.scrapedAt,
     previousQty |-> qty]

\* the body of the loop of compareResults: what one new result adds to the
\* three lists
ChangesOfNoTransition(ch, previousMap, newResult) ==
    LET j == MapIndex(previousMap, newResult.companyName)
    IN  IF j = 0
          THEN [ch EXCEPT
                  !.newApplications = Append(@, newResult),
                  !.newAllotments = IF newResult.isAlloted
                                      THEN Append(@, newResult) ELSE @]
        ELSE IF newResult.isAlloted /\ previousMap[j].isAlloted
                /\ newResult.allotedQty # previousMap[j].allotedQty
          THEN [ch EXCEPT !.updatedAllotments =
                  Append(@, WithPreviousQty(newResult,
                                            previousMap[j].allotedQty))]
        ELSE ch

ChangesOfFreshQty(ch, previousMap, newResult) ==
    LET j == MapIndex(previousMap, newResult.companyName)
    IN  IF j = 0
          THEN [ch EXCEPT
                  !.newApplications = Append(@, newResult),
                  !.newAllotments = IF newResult.isAlloted
                                      THEN Append(@, newResult) ELSE @]
        ELSE IF newResult.isAlloted /\ ~previousMap[j].isAlloted
          THEN [ch EXCEPT !.newAllotments = Append(@, newResult)]
        ELSE IF newResult.isAlloted /\ previousMap[j].isAlloted
                /\ newResult.allotedQty # previousMap[j].allotedQty
          THEN [ch EXCEPT !.updatedAllotments =
                  Append(@, WithPreviousQty(newResult,
                                            newResult.allotedQty))]
        ELSE ch

ChangesOfAnyQty(ch, previousMap, newResult) ==
    LET j == MapIndex(previousMap, newResult.companyName)
    IN  IF j = 0
          THEN [ch EXCEPT
                  !.newApplications = Append(@, newResult),
                  !.newAllotments = IF newResult.isAlloted
                                      THEN Append(@, newResult) ELSE @]
        ELSE IF newResult.isAlloted /\ ~previousMap[j].isAlloted
          THEN [ch EXCEPT !.newAllotments = Append(@, newResult)]
        ELSE IF newResult.isAlloted /\ previousMap[j].isAlloted
          THEN [ch EXCEPT !.updatedAllotments =
                  Append(@, WithPreviousQty(newResult,
                                            previousMap[j].allotedQty))]
        ELSE ch

ChangesOf(ch, previousMap, newResult) ==
    LET j == MapIndex(previousMap, newResult.companyName)
    IN  IF j = 0
          THEN [ch EXCEPT
                  !.newApplications = Append(@, newResult),
                  !.newAllotments = IF newResult.isAlloted
                                      THEN Append(@, newResult) ELSE @]
        ELSE IF newResult.isAlloted /\ ~previousMap[j].isAlloted
          THEN [ch EXCEPT !.newAllotments = Append(@, newResult)]
        ELSE IF newResult.isAlloted /\ previousMap[j].isAlloted
                /\ newResult.allotedQty # previousMap[j].allotedQty
          THEN [ch EXCEPT !.updatedAllotments =
                  Append(@, WithPreviousQty(newResult,
                                            previousMap[j].allotedQty))]
        ELSE ch

\* compareResults on the previous applications it loaded
RECURSIVE CompareResults(_, _)
CompareResults(previousApps, newResults) ==
    IF newResults = <<>> THEN NoChanges
    ELSE ChangesOf(CompareResults(previousApps,
                                  SubSeq(newResults, 1, Len(newResults) - 1)),
                   MapSetAll(<<>>, previousApps),
                   newResults[Len(newResults)])

\* findCompaniesToScrape
RECURSIVE FindCompaniesToScrapeNoTerminal(_, _)
FindCompaniesToScrapeNoTerminal(companies, existingResults) ==
    IF companies = <<>> THEN [toScrape |-> <<>>, cached |-> <<>>]
    ELSE
      LET existingMap == MapSetAll(<<>>, existingResults)
          rest == FindCompaniesToScrapeNoTerminal(
                      SubSeq(companies, 1, Len(companies) - 1), existingResults)
          company == companies[Len(companies)]
          j == MapIndex(existingMap, company.name)
      IN  IF j = 0
            THEN [rest EXCEPT !.toScrape = Append(@, company)]
          ELSE IF ~existingMap[j].isAlloted
            THEN [rest EXCEPT !.toScrape = Append(@, company)]
          ELSE [rest EXCEPT !.cached = Append(@, existingMap[j])]

RECURSIVE FindCompaniesToScrape(_, _)
FindCompaniesToScrape(companies, existingResults) ==
    IF companies = <<>> THEN [toScrape |-> <<>>, cached |-> <<>>]
    ELSE
      LET existingMap == MapSetAll(<<>>, existingResults)
          rest == FindCompaniesToScrape(
                      SubSeq(companies, 1, Len(companies) - 1), existingResults)
          company == companies[Len(companies)]
          j == MapIndex(existingMap, company.name)
      IN  IF j = 0
            THEN [rest EXCEPT !.toScrape = Append(@, company)]
          ELSE IF ~existingMap[j].isAlloted
                  /\ existingMap[j].status # "Not Alloted"
            THEN [rest EXCEPT !.toScrape = Append(@, company)]
          ELSE [rest EXCEPT !.cached = Append(@, existingMap[j])]

\* account numbers are 1-based positions in config.accounts
Account == i + 1

\* config.accounts[k].username; the configured usernames are distinct here
Username(k) == k

\* maskValue keeps the first three characters and up to five stars: two
\* usernames with the same prefix and length get the same mask
MaskValue(u) == (u + 1) \div 2

\* the steps of one account's workflow after the browser launch
ApplySteps == <<"monitor", "navigate", "login", "asba", "find",
                "navigateToIssue", "fillForm", "submit">>

ResultsSteps == <<"navigate", "login", "execute">>

Steps == IF resultsMode THEN ResultsSteps ELSE ApplySteps

\* position names of the workflow steps
StepNames == {ApplySteps[k] : k \in 1..Len(ApplySteps)}
                 \cup {ResultsSteps[k] : k \in 1..Len(ResultsSteps)}

NextPc(s) ==
    LET k == CHOOSE j \in 1..Len(Steps) : Steps[j] = s
    IN  IF k < Len(Steps) THEN Steps[k + 1] ELSE "cleanup"

\* the entry pushed by the catch clause of the account loop
FailedResult(k, msg) ==
    [account |-> MaskValue(Username(k)), idx |-> k, success |-> FALSE,
     error |-> msg, timestamp |-> TRUE]

\* ErrorHandler.handle: a screenshot of the page when one is held
HandleError(pg, k) == IF pg # 0 THEN {<<pg, k>>} ELSE {}

\* ERROR_CODES of the error types the workflows create; a plain Error has
\* no code and is logged as UNKNOWN, isRetryable is error.retryable === true
ERROR_CODES ==
    [AUTH_ERROR |-> [code |-> "AUTH_001", retryable |-> FALSE],
     BUSINESS_LOGIC_ERROR |-> [code |-> "BIZ_001", retryable |-> FALSE],
     UNKNOWN |-> [code |-> "UNKNOWN", retryable |-> FALSE]]

\* the steps of LoginHandler.login; the LoginHandler that does not look
\* for security challenges starts with the DP selection
LoginActions(detects) ==
    IF detects THEN <<"detectSecurityChallenges", "selectDP", "fillUsername",
                      "fillPassword", "submitForm">>
               ELSE <<"selectDP", "fillUsername", "fillPassword",
                      "submitForm">>

\* validateKitta called once the quantity is typed in
FillActionsLate(crn) ==
    <<"readMinimumQuantity", "selectBank", "selectAccount", "fillKitta",
      "validateKitta", "fillCRN", "acceptDisclaimer">>

\* the steps of fillForm; fillCRN when a CRN is configured
FillActions(crn) ==
    IF crn THEN <<"readMinimumQuantity", "validateKitta", "selectBank",
                  "selectAccount", "fillKitta", "fillCRN", "acceptDisclaimer">>
           ELSE <<"readMinimumQuantity", "validateKitta", "selectBank",
                  "selectAccount", "fillKitta", "acceptDisclaimer">>

\* the steps of FormAutomation.submit
SubmitActions == <<"clickProceed", "enterPIN", "clickApply">>

\* what a step of the workflow does on the remote pages, in order
StepActions(s, crn, detects) ==
    CASE s = "login" -> LoginActions(detects)
      [] s = "navigateToIssue" -> <<"openForm">>
      [] s = "fillForm" -> FillActions(crn)
      [] s = "submit" -> SubmitActions
      [] OTHER -> <<>>

\* the steps that throw on what they find, and the position of such a step
\* in a sequence of steps, 0 when there is none
Checks == {"detectSecurityChallenges", "validateKitta"}

CheckAt(steps) ==
    IF \E k \in 1..Len(steps) : steps[k] \in Checks
      THEN CHOOSE k \in 1..Len(steps) : steps[k] \in Checks
      ELSE 0

\* how the name of a listed issue relates to the configured target name,
\* by the first rule of matchIssue that holds of it: equal, the issue name
\* contains the target, the target contains the issue name, they share a
\* word of three letters or more, or neither
MatchLevels == {"exact", "contains", "contained", "word", "other"}

Issues == [match : MatchLevels, canApply : BOOLEAN]

\* the ASBA page: no .company-list element at all, or the named issues of
\* the elements there are
AsbaPages ==
    {[shown |-> FALSE, issues |-> {}]}
        \cup {[shown |-> TRUE, issues |-> is] :
                 is \in {x \in SUBSET Issues : Cardinality(x) <= MaxIssues}}

NoIssue(why) == [match |-> why, canApply |-> FALSE]

\* matchIssue: the issues its five rules can return, none when no rule
\* matches
MatchIssueAnyFirst(issues) ==
    LET any == {x \in issues : x.match \in {"exact", "contains", "contained"}}
        rule(levels) == {x \in issues : x.match \in levels /\ x.canApply}
    IN  IF any # {} THEN any
        ELSE rule({"word"})

MatchIssue(issues) ==
    LET rule(levels) == {x \in issues : x.match \in levels /\ x.canApply}
    IN  IF rule({"exact"}) # {} THEN rule({"exact"})
        ELSE IF rule({"contains"}) # {} THEN rule({"contains"})
        ELSE IF rule({"contained"}) # {} THEN rule({"contained"})
        ELSE IF rule({"word"}) # {} THEN rule({"word"})
        ELSE {x \in issues : x.match \in {"exact", "contains", "contained"}}

\* findTargetIssue on a page whose list appeared
FindTargetIssue(pg) ==
    IF MatchIssue(pg.issues) = {} THEN {NoIssue("null")}
                                  ELSE MatchIssue(pg.issues)

\* this.minQuantity = minQty || 10; shown is the number the form shows, 0
\* when it shows none
ReadMinimumQuantity(shown) == IF shown = 0 THEN DefaultMinQuantity ELSE shown

\* validateKitta throws
KittaBelowMinimum(kitta, minQuantity) == kitta < minQuantity

\* Number.parseInt(acc.appliedKitta || acc.kitta || "10"): an unset value,
\* the number 0 and the empty string are falsy
ParseKitta(raw) ==
    IF raw.t = "unset" \/ (raw.t = "number" /\ raw.v = 0)
      THEN [nan |-> FALSE, v |-> DefaultKitta]
    ELSE IF raw.t = "text" THEN [nan |-> TRUE, v |-> 0]
    ELSE [nan |-> FALSE, v |-> raw.v]

\* parseAccounts: the account objects built from the .env entries
ParseAccounts(raw) ==
    [k \in 1..Len(raw) |->
        [required |-> raw[k].required, transactionPin |-> raw[k].pin,
         crnNumber |-> raw[k].crnNumber,
         appliedKitta |-> ParseKitta(raw[k].appliedKitta)]]

\* /^\d{4}$/.test(account.transactionPin) on the PINs of RawPins
PinFormat(p) == p = "1234"

\* validateAccount does not throw
ValidateAccount(account) ==
    /\ account.required
    /\ PinFormat(account.transactionPin)
    /\ ~account.appliedKitta.nan
    /\ account.appliedKitta.v > 0

\* config.accounts once the module config.js is loaded
Accounts == ParseAccounts(rawAccounts)

\* the fields of the exported config object do not include resultsMode
ConfigResultsMode(env) == FALSE

\* an account of .env that passes validateAccount
ValidAccount ==
    [required |-> TRUE, pin |-> "1234", crnNumber |-> TRUE,
     appliedKitta |-> [t |-> "number", v |-> 2]]

\* nothing is known of the account in progress
NoAccountYet ==
    /\ acts = {}
    /\ challenge = FALSE
    /\ issuesPage = [looked |-> FALSE, shown |-> FALSE, named |-> FALSE]
    /\ targetIssue = NoIssue("unset")
    /\ validation = [checked |-> FALSE, read |-> FALSE, below |-> FALSE]
    /\ errorCode = ""

\* the fields the constructor sets, and nothing done yet
Constructed ==
    /\ i = 0
    /\ results = <<>>
    /\ browserManager = 0
    /\ bmBrowser = 0
    /\ page = 0
    /\ networkMonitor = 0
    /\ live = {}
    /\ launched = 0
    /\ used = {}
    /\ attempted = {}
    /\ heldAtOpen = {}
    /\ opened = {}
    /\ raised = {}
    /\ delays = 0
    /\ exitCode = -1
    /\ NoAccountYet
    /\ securityStop = FALSE
    /\ notified = <<>>
    /\ notifyOutcome = "none"

OrchInit ==
    /\ resultsMode \in BOOLEAN
    /\ totalAccounts \in 1..MaxAccounts
    /\ pc = "loop"
    /\ Constructed
    /\ envResultsMode = resultsMode
    /\ rawAccounts = [k \in 1..totalAccounts |-> ValidAccount]
    /\ validated = totalAccounts
    /\ setupFault = "none"
    /\ loginDetects \in BOOLEAN
    /\ notificationEnabled \in BOOLEAN

\* for (let i = 0; i < totalAccounts; i++): loop test and the log lines
EnterIteration ==
    /\ pc = "loop"
    /\ IF i < totalAccounts
         THEN /\ pc' = "launch"
              /\ attempted' = attempted \cup {Account}
         ELSE /\ pc' = "summary"
              /\ UNCHANGED attempted
    /\ UNCHANGED <<resultsMode, totalAccounts, i, results, browserManager,
                   bmBrowser, page, networkMonitor, live, launched, used,
                   heldAtOpen, opened, raised, delays, exitCode>>
    /\ UNCHANGED <<acctVars, configVars, securityStop, notifyVars>>
    /\ UNCHANGED <<recVars, submitVars, matchVars, loginVars>>

\* this.browserManager = new BrowserManager(config); await launch();
\* this.page = page.  outcome: "ok", "partial" (puppeteer.launch resolved,
\* a later call of launch() threw) or "none" (puppeteer.launch threw)
Launch ==
    /\ pc = "launch"
    /\ \E outcome \in {"ok", "partial", "none"} :
         LET b == launched + 1 IN
         /\ launched' = b
         /\ browserManager' = b
         /\ heldAtOpen' = heldAtOpen \cup
                {<<Account, "browserManager", browserManager>>,
                 <<Account, "page", page>>,
                 <<Account, "networkMonitor", networkMonitor>>}
         /\ opened' = opened \cup {<<b, Account>>}
         /\ bmBrowser' = IF outcome = "none" THEN 0 ELSE b
         /\ live' = IF outcome = "none" THEN live ELSE live \cup {b}
         /\ IF outcome = "ok"
              THEN /\ page' = b
                   /\ pc' = Steps[1]
                   /\ UNCHANGED <<results, used, raised, errorCode>>
              ELSE \* catch: ErrorHandler.handle(error, this.page); push
                   /\ page' = page
                   /\ used' = used \cup
                        (IF resultsMode THEN {} ELSE HandleError(page, Account))
                   /\ results' = Append(results, FailedResult(Account, "launch"))
                   /\ raised' = raised \cup {Account}
                   /\ errorCode' = ERROR_CODES.UNKNOWN.code
                   /\ pc' = "cleanup"
    /\ UNCHANGED <<resultsMode, totalAccounts, i, networkMonitor, attempted,
                   delays, exitCode>>
    /\ UNCHANGED <<acts, challenge, issuesPage, targetIssue, validation>>
    /\ UNCHANGED <<configVars, securityStop, notifyVars>>
    /\ UNCHANGED <<recVars, submitVars, matchVars, loginVars>>

\* the entry pushed for a workflow that returned: executeForAccount stamps
\* the result of submit(); ResultScraper.execute returns no timestamp
ReturnedResult(k, ok) ==
    [account |-> MaskValue(Username(k)), idx |-> k, success |-> ok,
     error |-> IF ok THEN "" ELSE "returned",
     timestamp |-> ~resultsMode]

\* what a step can meet on the remote pages: a security challenge on the
\* login page, the list of the ASBA page with the issue matchIssue picks,
\* the minimum quantity the form shows
NothingSeen ==
    [challenge |-> FALSE, page |-> [shown |-> FALSE, issues |-> {}],
     issue |-> NoIssue("unset"), shown |-> 0]

Seen(s) ==
    CASE s = "login" ->
           {[NothingSeen EXCEPT !.challenge = c] : c \in BOOLEAN}
      [] s = "find" ->
           UNION {{[NothingSeen EXCEPT !.page = pg, !.issue = m] :
                      m \in FindTargetIssue(pg)} : pg \in AsbaPages}
      [] s = "fillForm" ->
           {[NothingSeen EXCEPT !.shown = q] : q \in 0..MaxShown}
      [] OTHER -> {NothingSeen}

\* the message of the error a step throws by its own check of what it met,
\* "" when the check passes or is not made: detectSecurityChallenges, the
\* wait for the list and the two tests of targetIssue, validateKitta
StopOf(s, seen, steps) ==
    CASE s = "login" /\ CheckAt(steps) # 0 /\ seen.challenge -> "login"
      [] s = "find" /\ ~seen.page.shown -> "find"
      [] s = "find" /\ seen.page.shown /\ seen.issue.match = "null" ->
           "notFound"
      [] s = "find" /\ seen.page.shown /\ seen.issue.match # "null"
            /\ ~seen.issue.canApply -> "notAvailable"
      [] s = "fillForm" /\ CheckAt(steps) # 0
            /\ KittaBelowMinimum(Accounts[Account].appliedKitta.v,
                                 ReadMinimumQuantity(seen.shown)) -> "fillForm"
      [] OTHER -> ""

\* the error type a failure of the step reaches executeForAccount's catch
\* with: login wraps every error into an AUTH_ERROR, the two tests of
\* targetIssue create a BUSINESS_LOGIC_ERROR, the rest are plain errors
ErrorOf(s, stop) ==
    IF s = "login" THEN "AUTH_ERROR"
    ELSE IF stop \in {"notFound", "notAvailable"} THEN "BUSINESS_LOGIC_ERROR"
    ELSE "UNKNOWN"

\* one awaited step of the account's workflow on the launched page.
\* "monitor" is new NetworkMonitor(page) + start(); "execute" is
\* ResultScraper.execute, which catches every error and returns a result.
\* A step that raises has gone through the first n steps of its own
WorkflowStep ==
    /\ pc \in StepNames
    /\ \E outcome \in {"ok", "fail", "raise"}, seen \in Seen(pc) :
         LET steps == StepActions(pc, Accounts[Account].crnNumber,
                                  loginDetects)
             stop == StopOf(pc, seen, steps)
             raises == outcome = "raise" \/ stop # ""
             listRead == pc = "find" /\ outcome # "raise"
         IN  \E n \in 0..Len(steps) :
             /\ outcome = "fail" => pc = Steps[Len(Steps)]
             /\ outcome = "raise" => pc # "execute"
             /\ stop # "" => outcome = "ok" /\ n = CheckAt(steps)
             /\ ~raises => n = Len(steps)
             /\ used' = used \cup {<<page, Account>>}
             /\ networkMonitor' = IF pc = "monitor" THEN page
                                                    ELSE networkMonitor
             /\ acts' = acts \cup {steps[k] : k \in 1..n}
             /\ challenge' = IF pc = "login" THEN seen.challenge ELSE challenge
             /\ securityStop' = (securityStop \/ (pc = "login" /\ stop # ""))
             /\ issuesPage' =
                    IF listRead
                      THEN [looked |-> TRUE, shown |-> seen.page.shown,
                            named |-> \E x \in seen.page.issues :
                                         x.match = "exact"]
                      ELSE issuesPage
             /\ targetIssue' = IF listRead /\ seen.page.shown THEN seen.issue
                                                              ELSE targetIssue
             /\ validation' =
                    IF pc = "fillForm" /\ n >= CheckAt(steps)
                      THEN [checked |-> TRUE, read |-> seen.shown # 0,
                            below |-> KittaBelowMinimum(
                                        Accounts[Account].appliedKitta.v,
                                        ReadMinimumQuantity(seen.shown))]
                      ELSE validation
             /\ IF raises
                  THEN /\ results' = Append(results,
                              FailedResult(Account,
                                           IF stop # "" THEN stop ELSE pc))
                       /\ raised' = raised \cup {Account}
                       /\ errorCode' = ERROR_CODES[ErrorOf(pc, stop)].code
                       /\ pc' = "cleanup"
                  ELSE IF pc = Steps[Len(Steps)]
                  THEN /\ results' = Append(results,
                              ReturnedResult(Account, outcome = "ok"))
                       /\ pc' = "cleanup"
                       /\ UNCHANGED <<raised, errorCode>>
                  ELSE /\ outcome = "ok"
                       /\ pc' = NextPc(pc)
                       /\ UNCHANGED <<results, raised, errorCode>>
    /\ UNCHANGED <<resultsMode, totalAccounts, i, browserManager, bmBrowser,
                   page, live, launched, attempted, heldAtOpen, opened, delays,
                   exitCode>>
    /\ UNCHANGED <<configVars, notifyVars>>
    /\ UNCHANGED <<recVars, submitVars, matchVars, loginVars>>

\* BrowserManager.close: if (this.browser) await this.browser.close().
\* The set of outcomes: the browser is closed, or close() rejects and the
\* process may or may not be gone
CloseOutcomes == IF bmBrowser # 0 THEN {"closed", "throws", "throwsClosed"}
                                  ELSE {"closed"}

LiveAfterCloseLeak(outcome) == live

LiveAfterClose(outcome) ==
    IF outcome = "throws" THEN live ELSE live \ {bmBrowser}

\* this.page = null, the last statement of cleanup
PageAfterCleanupStale == page

PageAfterCleanup == 0

\* await this.cleanup(), then the delay test of the loop.  What was noted of
\* the account's workflow is dropped here
Cleanup ==
    /\ pc = "cleanup"
    /\ networkMonitor' = 0
    /\ IF browserManager = 0
         THEN /\ page' = PageAfterCleanup
              /\ pc' = IF i < totalAccounts - 1 THEN "delay" ELSE "next"
              /\ UNCHANGED <<browserManager, bmBrowser, live>>
         ELSE \E outcome \in CloseOutcomes :
              /\ live' = LiveAfterClose(outcome)
              /\ IF outcome = "closed"
                   THEN /\ browserManager' = 0
                        /\ bmBrowser' = 0
                        /\ page' = PageAfterCleanup
                        /\ pc' = IF i < totalAccounts - 1 THEN "delay"
                                                          ELSE "next"
                   ELSE \* the rejection leaves executeAll
                        /\ pc' = "fatal"
                        /\ UNCHANGED <<browserManager, bmBrowser, page>>
    /\ UNCHANGED <<resultsMode, totalAccounts, i, results, launched, used,
                   attempted, heldAtOpen, opened, raised, delays, exitCode>>
    /\ acts' = {}
    /\ challenge' = FALSE
    /\ issuesPage' = [looked |-> FALSE, shown |-> FALSE, named |-> FALSE]
    /\ targetIssue' = NoIssue("unset")
    /\ validation' = [checked |-> FALSE, read |-> FALSE, below |-> FALSE]
    /\ errorCode' = ""
    /\ UNCHANGED <<configVars, securityStop, notifyVars>>
    /\ UNCHANGED <<recVars, submitVars, matchVars, loginVars>>

\* await this.delay(...) between two accounts
Delay ==
    /\ pc = "delay"
    /\ delays' = delays + 1
    /\ pc' = "next"
    /\ UNCHANGED <<resultsMode, totalAccounts, i, results, browserManager,
                   bmBrowser, page, networkMonitor, live, launched, used,
                   attempted, heldAtOpen, opened, raised,
                   exitCode>>
    /\ UNCHANGED <<acctVars, configVars, securityStop, notifyVars>>
    /\ UNCHANGED <<recVars, submitVars, matchVars, loginVars>>

\* i++
NextAccount ==
    /\ pc = "next"
    /\ i' = i + 1
    /\ pc' = "loop"
    /\ UNCHANGED <<resultsMode, totalAccounts, results, browserManager,
                   bmBrowser, page, networkMonitor, live, launched, used,
                   attempted, heldAtOpen, opened, raised, delays, exitCode>>
    /\ UNCHANGED <<acctVars, configVars, securityStop, notifyVars>>
    /\ UNCHANGED <<recVars, submitVars, matchVars, loginVars>>

\* only the failed entries
NotifierInputFailed(rs) == SelectSeq(rs, LAMBDA r : ~r.success)

\* notifier.sendBatch(this.results)
NotifierInput(rs) == rs

\* printSummary / printResultsModeSummary; return this.results.
\* printSummary calls sendNotifications without awaiting it: sendBatch has
\* started the webhook request, or has failed and logged, when it returns
Summary ==
    /\ pc = "summary"
    /\ pc' = "main"
    /\ IF ~resultsMode /\ notificationEnabled /\ Len(results) > 0
         THEN /\ notified' = Append(notified, NotifierInput(results))
              /\ notifyOutcome' \in {"pending", "failed"}
         ELSE UNCHANGED notifyVars
    /\ UNCHANGED <<resultsMode, totalAccounts, i, results, browserManager,
                   bmBrowser, page, networkMonitor, live, launched, used,
                   attempted, heldAtOpen, opened, raised, delays, exitCode>>
    /\ UNCHANGED <<acctVars, configVars, securityStop>>
    /\ UNCHANGED <<recVars, submitVars, matchVars, loginVars>>

SuccessCount(rs) == Cardinality({k \in 1..Len(rs) : rs[k].success})

FailCount(rs) == Cardinality({k \in 1..Len(rs) : ~rs[k].success})

\* the exit status the main function derives from the returned results
ExitStatus(rs) ==
    IF resultsMode
      THEN IF \E k \in 1..Len(rs) : ~rs[k].success THEN 1 ELSE 0
      ELSE IF FailCount(rs) = 0 THEN 0
           ELSE IF SuccessCount(rs) > 0 THEN 1
           ELSE 2

\* main: process.exit(...) after executeAll returned
MainExit ==
    /\ pc = "main"
    /\ exitCode' = ExitStatus(results)
    /\ pc' = "exited"
    /\ UNCHANGED <<resultsMode, totalAccounts, i, results, browserManager,
                   bmBrowser, page, networkMonitor, live, launched, used,
                   attempted, heldAtOpen, opened, raised, delays>>
    /\ UNCHANGED <<acctVars, configVars, securityStop, notifyVars>>
    /\ UNCHANGED <<recVars, submitVars, matchVars, loginVars>>

\* exit status of a Node 18 process whose promise rejection nobody handles
UnhandledRejectionExit == 1

\* main's catch: await automation.cleanup(); process.exit(2).  A second
\* rejection of close() is not handled by anyone
MainCatch ==
    /\ pc = "fatal"
    /\ networkMonitor' = 0
    /\ \E outcome \in CloseOutcomes :
         /\ live' = LiveAfterClose(outcome)
         /\ IF outcome = "closed"
              THEN /\ browserManager' = 0
                   /\ bmBrowser' = 0
                   /\ page' = PageAfterCleanup
                   /\ exitCode' = 2
              ELSE /\ exitCode' = UnhandledRejectionExit
                   /\ UNCHANGED <<browserManager, bmBrowser, page>>
    /\ pc' = "aborted"
    /\ UNCHANGED <<resultsMode, totalAccounts, i, results, launched, used,
                   attempted, heldAtOpen, opened, raised, delays>>
    /\ UNCHANGED <<acctVars, configVars, securityStop, notifyVars>>
    /\ UNCHANGED <<recVars, submitVars, matchVars, loginVars>>

\* the report pages are not held fixed: every cycle sees any listing and
\* any details
Unscripted == [scripted |-> FALSE, listing |-> <<>>, details |-> <<>>]

\* no reconciliation cycle is followed in Spec
RecStill ==
    /\ fileState = "missing"
    /\ ledger = [u \in Users |-> <<>>]
    /\ now = 0
    /\ cpc = "idle"
    /\ cUser = ScrapedUser
    /\ pageCompanies = <<>>
    /\ existingAtSelect = <<>>
    /\ toScrape = <<>>
    /\ cached = <<>>
    /\ scraped = <<>>
    /\ scrapeIdx = 0
    /\ cResult = "none"
    /\ mergedApps = <<>>
    /\ priorAtSave = <<>>
    /\ saves = 0
    /\ writes = 0
    /\ firstSaved = <<>>
    /\ cError = ""
    /\ changes = NoChanges
    /\ priorAtCompare = <<>>
    /\ compares = 0
    /\ fileAtBegin = "missing"
    /\ persistedAtBegin = <<>>
    /\ flaky = FALSE
    /\ ledgerAtBegin = [u \in Users |-> <<>>]
    /\ observed = Unscripted
    /\ prior = "none"

\* neither a cycle nor a submit is followed
RecQuiet == RecStill /\ SubmitIdle /\ MatchIdle /\ LoginIdle

Init == OrchInit /\ RecQuiet

Next ==
    \/ EnterIteration
    \/ Launch
    \/ WorkflowStep
    \/ Cleanup
    \/ Delay
    \/ NextAccount
    \/ Summary
    \/ MainExit
    \/ MainCatch

Spec == Init /\ [][Next]_vars

\* the run under the scheduling of the event loop: every awaited operation
\* resolves or rejects, so a step that can be taken is taken
SpecLive == Init /\ [][Next]_vars /\ WF_vars(Next)

\* ------------------------------------------------ the process from its start
\* the PINs written in .env: four digits, five digits, a letter among them
RawPins == {"1234", "12345", "12a4"}

\* the quantities written in .env: a JSON number, the string "0", a string
\* that is no number
RawKittas ==
    {[t |-> "number", v |-> q] : q \in {-1, 0, 2}}
        \cup {[t |-> "digits", v |-> 0], [t |-> "text", v |-> 0]}

\* the accounts written in .env: the valid account and the accounts that
\* differ from it in one field
RawAccountSet ==
    {ValidAccount, [ValidAccount EXCEPT !.required = FALSE]}
        \cup {[ValidAccount EXCEPT !.pin = p] : p \in RawPins}
        \cup {[ValidAccount EXCEPT !.appliedKitta = q] : q \in RawKittas}

\* the process starts: nothing is imported yet.  ACCOUNTS of no entry stands
\* for a value that is no non-empty JSON array
MainInit ==
    /\ rawAccounts \in UNION {[1..n -> RawAccountSet] : n \in 0..MaxAccounts}
    /\ totalAccounts = Len(rawAccounts)
    /\ envResultsMode \in BOOLEAN
    /\ resultsMode = FALSE
    /\ loginDetects = TRUE
    /\ notificationEnabled = FALSE
    /\ validated = 0
    /\ setupFault = "none"
    /\ pc = "import"
    /\ Constructed
    /\ RecQuiet

\* exit status of a process whose entry module throws while it is loaded
\* (node, and the catch of bootstrap.cjs), and of process.exit(1) in
\* initializeDirectories
SetupFaultExit == 1

\* number of accounts validateAccount is called on: up to the first one it
\* throws for
ValidatedCount(accounts) ==
    IF \A k \in 1..Len(accounts) : ValidateAccount(accounts[k])
      THEN Len(accounts)
      ELSE CHOOSE k \in 1..Len(accounts) :
              /\ ~ValidateAccount(accounts[k])
              /\ \A j \in 1..(k - 1) : ValidateAccount(accounts[j])

\* the imports of the entry module are evaluated before its body: config.js
\* parses and validates the accounts and builds the config object
LoadConfig ==
    /\ pc = "import"
    /\ validated' = ValidatedCount(Accounts)
    /\ IF rawAccounts # <<>>
          /\ \A k \in 1..Len(Accounts) : ValidateAccount(Accounts[k])
         THEN /\ resultsMode' = ConfigResultsMode(envResultsMode)
              /\ pc' = "dirs"
              /\ UNCHANGED <<setupFault, exitCode>>
         ELSE /\ setupFault' = "config"
              /\ exitCode' = SetupFaultExit
              /\ pc' = "aborted"
              /\ UNCHANGED resultsMode
    /\ UNCHANGED <<totalAccounts, i, results, browserManager, bmBrowser, page,
                   networkMonitor, live, launched, used, attempted,
                   heldAtOpen, opened, raised, delays>>
    /\ UNCHANGED <<envResultsMode, rawAccounts, loginDetects,
                   notificationEnabled>>
    /\ UNCHANGED <<acctVars, securityStop, notifyVars>>
    /\ UNCHANGED <<recVars, submitVars, matchVars, loginVars>>

\* initializeDirectories(): mkdirSync of logs and screenshots, then the
\* .env template is copied and the process exits when .env is missing
InitializeDirectories ==
    /\ pc = "dirs"
    /\ \E mkdirOk \in BOOLEAN, envFile \in BOOLEAN, exampleFile \in BOOLEAN :
         IF ~mkdirOk
           THEN /\ setupFault' = "dirs"
                /\ exitCode' = SetupFaultExit
                /\ pc' = "aborted"
         ELSE IF ~envFile /\ exampleFile
           THEN /\ setupFault' = "env"
                /\ exitCode' = SetupFaultExit
                /\ pc' = "aborted"
         ELSE /\ pc' = "loop"
              /\ UNCHANGED <<setupFault, exitCode>>
    /\ UNCHANGED <<resultsMode, totalAccounts, i, results, browserManager,
                   bmBrowser, page, networkMonitor, live, launched, used,
                   attempted, heldAtOpen, opened, raised, delays>>
    /\ UNCHANGED <<envResultsMode, rawAccounts, validated, loginDetects,
                   notificationEnabled>>
    /\ UNCHANGED <<acctVars, securityStop, notifyVars>>
    /\ UNCHANGED <<recVars, submitVars, matchVars, loginVars>>

MainNext ==
    \/ LoadConfig
    \/ InitializeDirectories
    \/ Next

SpecMain == MainInit /\ [][MainNext]_vars


\* ------------------------------------------------- reconciliation cycles
\* the orchestrator stands still while SpecCycle and SpecSave follow the
\* scraper
OrchStill ==
    /\ resultsMode = TRUE
    /\ totalAccounts = 1
    /\ i = 0
    /\ pc = "execute"
    /\ results = <<>>
    /\ browserManager = 1
    /\ bmBrowser = 1
    /\ page = 1
    /\ networkMonitor = 0
    /\ live = {1}
    /\ launched = 1
    /\ used = {<<1, 1>>}
    /\ attempted = {1}
    /\ heldAtOpen = {}
    /\ opened = {<<1, 1>>}
    /\ raised = {}
    /\ delays = 0
    /\ exitCode = -1
    /\ NoAccountYet
    /\ envResultsMode = TRUE
    /\ rawAccounts = <<ValidAccount>>
    /\ validated = 1
    /\ setupFault = "none"
    /\ notificationEnabled = FALSE
    /\ securityStop = FALSE
    /\ notified = <<>>
    /\ notifyOutcome = "none"

\* the orchestrator stands still and no submit is followed
OrchQuiet ==
    OrchStill /\ loginDetects = TRUE /\ SubmitIdle /\ MatchIdle /\ LoginIdle

\* the detail pages a scrape can meet: status and allotted quantity shown
DetailPages ==
    {<<"Pending", 0>>, <<"Not Alloted", 0>>}
        \cup {<<"Alloted", q>> : q \in 1..MaxQty}

\* a record kept by an earlier release of the scraper: the terminal status
\* with the allotted flag not set
LegacyRecord(name) ==
    [companyName |-> name, status |-> "Not Alloted", isAlloted |-> FALSE,
     allotedQty |-> 0, scrapedAt |-> 0]

\* the listings getAllCompanyNames can return: index and name of every
\* .company-list entry that shows a name
Listings ==
    UNION {[1..n -> 1..NumListed] : n \in 0..MaxPage}

PageOf(listing) ==
    [j \in 1..Len(listing) |-> [index |-> j - 1, name |-> listing[j]]]

\* no record is made of the item: the report button or the detail page
\* did not come
NoDetails == <<"", 0>>

\* a listing and, for every row of it, the details its report shows
Observations ==
    UNION {{[scripted |-> TRUE, listing |-> l, details |-> d] :
               d \in [1..Len(l) -> DetailPages \cup {NoDetails}]} :
           l \in Listings}

\* what getAllCompanyNames can return in this cycle
ListingsSeen ==
    IF observed.scripted THEN {observed.listing} ELSE Listings

\* how the iteration of scrapeAllResults for a company can end
ItemOutcomes(company) ==
    IF ~observed.scripted THEN {"record", "skip", "caught", "fatal"}
    ELSE IF observed.details[company.index + 1] = NoDetails THEN {"skip"}
    ELSE {"record"}

\* the status and quantity extractApplicationDetails can read for it
DetailsSeen(company) ==
    IF observed.scripted THEN {observed.details[company.index + 1]}
    ELSE DetailPages

\* the applications persisted for a user, as a later load sees them
PersistedApps(u) == LoadPreviousResults[u]

\* saveResults(accountUsername, newResults).  written = FALSE is
\* fs.writeFileSync throwing, which the catch clause logs; so it logs the
\* TypeError of allResults[accountUsername] on a file that holds null
SaveResults(u, newResults, readOk, written) ==
    IF LoadedNull(readOk)
      THEN /\ saves' = saves + 1
           /\ UNCHANGED <<priorAtSave, mergedApps, fileState, ledger, writes>>
      ELSE
        LET allResults == LoadOutcome(readOk)
            previousApps == allResults[u]
            merged == MergeApps(previousApps, newResults)
        IN  /\ priorAtSave' = previousApps
            /\ mergedApps' = merged
            /\ saves' = saves + 1
            /\ IF written
                 THEN /\ fileState' = "ok"
                      /\ ledger' = [allResults EXCEPT ![u] = merged]
                      /\ writes' = writes + 1
                 ELSE UNCHANGED <<fileState, ledger, writes>>

\* no cycle has begun
NoCycleYet ==
    /\ cError = ""
    /\ changes = NoChanges
    /\ priorAtCompare = <<>>
    /\ compares = 0
    /\ fileAtBegin = "missing"
    /\ persistedAtBegin = <<>>
    /\ ledgerAtBegin = [u \in Users |-> <<>>]
    /\ prior = "none"

CycleInit ==
    /\ OrchQuiet
    /\ \/ /\ fileState \in {"missing", "corrupt", "null"}
          /\ ledger = [u \in Users |-> <<>>]
       \/ /\ fileState = "ok"
          /\ ledger = [u \in Users |-> <<LegacyRecord(1)>>]
    /\ now = 0
    /\ cpc = "idle"
    /\ cUser = ScrapedUser
    /\ pageCompanies = <<>>
    /\ existingAtSelect = <<>>
    /\ toScrape = <<>>
    /\ cached = <<>>
    /\ scraped = <<>>
    /\ scrapeIdx = 0
    /\ cResult = "none"
    /\ mergedApps = <<>>
    /\ priorAtSave = <<>>
    /\ saves = 0
    /\ writes = 0
    /\ firstSaved = <<>>
    /\ NoCycleYet
    /\ flaky = FALSE
    /\ observed = Unscripted

\* the statements of execute after navigateToReports, in order: the two
\* halves of scrapeAllResults, compareResults, saveResults
ExecuteStepsSaveFirst == <<"list", "scrape", "save", "compare">>

ExecuteSteps == <<"list", "scrape", "compare", "save">>

StepAfter(s) ==
    LET k == CHOOSE j \in 1..Len(ExecuteSteps) : ExecuteSteps[j] = s
    IN  IF k < Len(ExecuteSteps) THEN ExecuteSteps[k + 1] ELSE "return"

\* control after step s ended normally; after the last one execute returns
\* { success: true, ... }
Advance(s) ==
    IF StepAfter(s) = "return"
      THEN /\ cpc' = "idle"
           /\ cResult' = "success"
      ELSE /\ cpc' = StepAfter(s)
           /\ UNCHANGED cResult

\* a catch clause that logs the error and lets execute return success
FailSwallowed(msg) ==
    /\ cpc' = "idle"
    /\ cResult' = "success"
    /\ cError' = msg

\* execute's catch clause: return { success: false, error, results: [] }
Fail(msg) ==
    /\ cpc' = "idle"
    /\ cResult' = "failure"
    /\ cError' = msg

\* new ResultScraper(page, account); execute(): navigateToReports
BeginPass ==
    /\ cpc = "idle"
    /\ now' = 1
    /\ cUser' = ScrapedUser
    /\ \E reached \in BOOLEAN :
         IF reached
           THEN /\ cpc' = "list"
                /\ cResult' = "none"
                /\ cError' = ""
           ELSE Fail("NAVIGATION_ERROR")
    /\ pageCompanies' = <<>>
    /\ existingAtSelect' = <<>>
    /\ toScrape' = <<>>
    /\ cached' = <<>>
    /\ scraped' = <<>>
    /\ scrapeIdx' = 0
    /\ mergedApps' = <<>>
    /\ priorAtSave' = <<>>
    /\ saves' = 0
    /\ writes' = 0
    /\ changes' = NoChanges
    /\ priorAtCompare' = <<>>
    /\ compares' = 0
    /\ fileAtBegin' = fileState
    /\ persistedAtBegin' = PersistedApps(ScrapedUser)
    /\ ledgerAtBegin' = ledger
    /\ UNCHANGED <<fileState, ledger, firstSaved, flaky, observed>>
    /\ UNCHANGED <<orchVars, submitVars, matchVars, loginVars>>

\* a cycle of a run in which the cycles are not told apart
BeginCycle == BeginPass /\ UNCHANGED prior

\* scrapeAllResults up to the item loop: the listing is read, the previous
\* results are loaded and the companies to scrape are selected
SelectCompanies ==
    /\ cpc = "list"
    /\ \/ \* waitForSelector(".company-list") timed out: FORM_ERROR
          /\ Fail("FORM_ERROR")
          /\ UNCHANGED <<pageCompanies, existingAtSelect, toScrape, cached,
                         scraped>>
       \/ \* no application is listed: return results before any load
          /\ <<>> \in ListingsSeen
          /\ pageCompanies' = <<>>
          /\ Advance("scrape")
          /\ UNCHANGED <<existingAtSelect, toScrape, cached, scraped,
                         cError>>
       \/ \E listing \in ListingsSeen \ {<<>>} : \E readOk \in ReadOutcomes :
            IF LoadedNull(readOk)
                 THEN \* previousData[this.account.username] throws and
                      \* the locals of scrapeAllResults are gone
                      /\ Fail("FORM_ERROR: TypeError")
                      /\ UNCHANGED <<pageCompanies, existingAtSelect,
                                     toScrape, cached, scraped>>
                 ELSE LET existingResults == LoadOutcome(readOk)[cUser]
                          sel == FindCompaniesToScrape(PageOf(listing),
                                                       existingResults)
                      IN  /\ pageCompanies' = PageOf(listing)
                          /\ existingAtSelect' = existingResults
                          /\ toScrape' = sel.toScrape
                          /\ cached' = sel.cached
                          /\ scraped' = sel.cached
                          /\ UNCHANGED cError
                          /\ IF sel.toScrape = <<>>
                               THEN Advance("scrape")
                               ELSE /\ cpc' = "scrape"
                                    /\ UNCHANGED cResult
    /\ UNCHANGED <<fileState, ledger, now, cUser, scrapeIdx, mergedApps,
                   priorAtSave, saves, writes, firstSaved, changes,
                   priorAtCompare, compares, fileAtBegin, persistedAtBegin,
                   flaky, ledgerAtBegin, observed, prior>>
    /\ UNCHANGED <<orchVars, submitVars, matchVars, loginVars>>

\* one iteration of the item loop of scrapeAllResults.
\*   "record"  the detail page was read and a record was pushed; it carries
\*             the name the listing showed for the company
\*   "skip"    the report button or the detail page did not come, or
\*             extractApplicationDetails returned null
\*   "caught"  the iteration threw and the catch clause got back to the list
\*   "fatal"   the iteration threw and navigateToReports, called by the
\*             catch clause, threw as well: FORM_ERROR out of the loop
ScrapeItem ==
    /\ cpc = "scrape"
    /\ LET company == toScrape[scrapeIdx + 1]
           last == scrapeIdx + 1 = Len(toScrape)
       IN  \E outcome \in ItemOutcomes(company) :
             IF outcome = "fatal"
                  THEN /\ Fail("FORM_ERROR")
                       /\ UNCHANGED <<scraped, scrapeIdx>>
                  ELSE /\ scrapeIdx' = scrapeIdx + 1
                       /\ IF last THEN Advance("scrape")
                                  ELSE /\ cpc' = "scrape"
                                       /\ UNCHANGED cResult
                       /\ UNCHANGED cError
                       /\ IF outcome = "record"
                            THEN \E d \in DetailsSeen(company) :
                                   scraped' = Append(scraped,
                                       ExtractApplicationDetails(
                                           company.name, d[1], d[2], now))
                            ELSE UNCHANGED scraped
    /\ UNCHANGED <<fileState, ledger, now, cUser, pageCompanies,
                   existingAtSelect, toScrape, cached, mergedApps,
                   priorAtSave, saves, writes, firstSaved, changes,
                   priorAtCompare, compares, fileAtBegin, persistedAtBegin,
                   flaky, ledgerAtBegin, observed, prior>>
    /\ UNCHANGED <<orchVars, submitVars, matchVars, loginVars>>

\* const changes = this.compareResults(this.account.username, results)
Compare ==
    /\ cpc = "compare"
    /\ \E readOk \in ReadOutcomes :
         IF LoadedNull(readOk)
              THEN \* previousData[accountUsername] throws out of execute's try
                   /\ Fail("TypeError")
                   /\ UNCHANGED <<changes, priorAtCompare, compares>>
              ELSE LET previousApps == LoadOutcome(readOk)[cUser]
                   IN  /\ priorAtCompare' = previousApps
                       /\ changes' = CompareResults(previousApps, scraped)
                       /\ compares' = compares + 1
                       /\ Advance("compare")
                       /\ UNCHANGED cError
    /\ UNCHANGED <<fileState, ledger, now, cUser, pageCompanies,
                   existingAtSelect, toScrape, cached, scraped, scrapeIdx,
                   mergedApps, priorAtSave, saves, writes, firstSaved,
                   fileAtBegin, persistedAtBegin, flaky, ledgerAtBegin,
                   observed, prior>>
    /\ UNCHANGED <<orchVars, submitVars, matchVars, loginVars>>

\* this.saveResults(this.account.username, results)
SaveCycle ==
    /\ cpc = "save"
    /\ \E readOk \in ReadOutcomes : \E written \in BOOLEAN :
         SaveResults(cUser, scraped, readOk, written)
    /\ Advance("save")
    /\ UNCHANGED <<now, cUser, pageCompanies, existingAtSelect, toScrape,
                   cached, scraped, scrapeIdx, firstSaved, cError, changes,
                   priorAtCompare, compares, fileAtBegin, persistedAtBegin,
                   flaky, ledgerAtBegin, observed, prior>>
    /\ UNCHANGED <<orchVars, submitVars, matchVars, loginVars>>

CycleNext ==
    \/ BeginCycle
    \/ SelectCompanies
    \/ ScrapeItem
    \/ Compare
    \/ SaveCycle

SpecCycle == CycleInit /\ [][CycleNext]_vars

\* ------------------------------------------------ saveResults on its own
\* the records a stored list or a batch can hold: a pending and an
\* allotted one for every name
RecordsAt(at) ==
    {ExtractApplicationDetails(n, d[1], d[2], at) :
        n \in Names, d \in {<<"Pending", 0>>, <<"Alloted", 1>>}}

\* stored lists: one record per name, in localeCompare order
StoredLists ==
    {l \in UNION {[1..n -> RecordsAt(0)] : n \in 0..NumNames} :
        /\ \A a \in 1..Len(l) : \A b \in 1..Len(l) :
              a # b => l[a].companyName # l[b].companyName
        /\ \A a \in 1..Len(l) - 1 :
              LocaleCompare(l[a].companyName, l[a + 1].companyName) <= 0}

\* a results file written by hand or by a release that did not sort: the
\* stored lists in the opposite order
UnsortedLists ==
    {[j \in 1..Len(l) |-> l[Len(l) + 1 - j]] : l \in StoredLists}

Batches == UNION {[1..n -> RecordsAt(1)] : n \in 0..MaxBatch}

SaveInit ==
    /\ OrchQuiet
    /\ cUser = ScrapedUser
    /\ \/ /\ fileState = "ok"
          /\ \E l \in StoredLists \cup UnsortedLists :
                ledger = [u \in Users |-> IF u = cUser THEN l ELSE <<>>]
       \/ /\ fileState \in {"missing", "corrupt"}
          /\ ledger = [u \in Users |-> <<>>]
    /\ scraped \in Batches
    /\ now = 1
    /\ cpc = "save"
    /\ pageCompanies = <<>>
    /\ existingAtSelect = <<>>
    /\ toScrape = <<>>
    /\ cached = <<>>
    /\ scrapeIdx = 0
    /\ cResult = "none"
    /\ mergedApps = <<>>
    /\ priorAtSave = <<>>
    /\ saves = 0
    /\ writes = 0
    /\ firstSaved = <<>>
    /\ NoCycleYet
    /\ flaky = FALSE
    /\ observed = Unscripted

\* saveResults is called with the same account and the same batch again
SaveAgain ==
    /\ saves < MaxSaves
    /\ \E written \in BOOLEAN :
         /\ SaveResults(cUser, scraped, TRUE, written)
         /\ firstSaved' = IF written /\ writes = 0 THEN mergedApps'
                                                    ELSE firstSaved
    /\ UNCHANGED <<now, cpc, cUser, pageCompanies, existingAtSelect,
                   toScrape, cached, scraped, scrapeIdx, cResult>>
    /\ UNCHANGED cycleHist
    /\ UNCHANGED <<orchVars, submitVars, matchVars, loginVars>>

SaveNext == SaveAgain

SpecSave == SaveInit /\ [][SaveNext]_vars

\* --------------------------------------- one cycle with failing reads
\* the results file holds no record or one record of the account and a
\* record of every other account, or the text null
FaultInit ==
    /\ OrchQuiet
    /\ cUser = ScrapedUser
    /\ \/ /\ fileState = "ok"
          /\ \E l \in {sl \in StoredLists : Len(sl) <= 1} :
                ledger = [u \in Users |-> IF u = cUser THEN l
                                          ELSE <<LegacyRecord(1)>>]
       \/ /\ fileState = "null"
          /\ ledger = [u \in Users |-> <<>>]
    /\ now = 0
    /\ cpc = "idle"
    /\ pageCompanies = <<>>
    /\ existingAtSelect = <<>>
    /\ toScrape = <<>>
    /\ cached = <<>>
    /\ scraped = <<>>
    /\ scrapeIdx = 0
    /\ cResult = "none"
    /\ mergedApps = <<>>
    /\ priorAtSave = <<>>
    /\ saves = 0
    /\ writes = 0
    /\ firstSaved = <<>>
    /\ NoCycleYet
    /\ flaky = TRUE
    /\ observed = Unscripted

\* the one cycle SpecFault follows
BeginOnce == cResult = "none" /\ BeginCycle

FaultNext ==
    \/ BeginOnce
    \/ SelectCompanies
    \/ ScrapeItem
    \/ Compare
    \/ SaveCycle

SpecFault == FaultInit /\ [][FaultNext]_vars

\* ------------------------------- two cycles that see the same pages
\* the account is reconciled twice, as by two runs of the program, and the
\* site shows the same listing and the same details both times
RepeatInit ==
    /\ OrchQuiet
    /\ \/ /\ fileState \in {"missing", "corrupt"}
          /\ ledger = [u \in Users |-> <<>>]
       \/ /\ fileState = "ok"
          /\ ledger = [u \in Users |-> <<LegacyRecord(1)>>]
    /\ now = 0
    /\ cpc = "idle"
    /\ cUser = ScrapedUser
    /\ pageCompanies = <<>>
    /\ existingAtSelect = <<>>
    /\ toScrape = <<>>
    /\ cached = <<>>
    /\ scraped = <<>>
    /\ scrapeIdx = 0
    /\ cResult = "none"
    /\ mergedApps = <<>>
    /\ priorAtSave = <<>>
    /\ saves = 0
    /\ writes = 0
    /\ firstSaved = <<>>
    /\ NoCycleYet
    /\ flaky = FALSE
    /\ observed \in Observations

\* the first cycle, and the one cycle that follows it
BeginRepeat ==
    /\ prior = "none"
    /\ BeginPass
    /\ prior' = cResult

RepeatNext ==
    \/ BeginRepeat
    \/ SelectCompanies
    \/ ScrapeItem
    \/ Compare
    \/ SaveCycle

SpecRepeat == RepeatInit /\ [][RepeatNext]_vars

\* ------------------------------------------ IssueDetector.matchIssue
\* the lists scrapeIssues can return: the issues that show a name
ScrapedLists == {x \in SUBSET Issues : Cardinality(x) <= MaxIssues}

MatchInit ==
    /\ OrchStill
    /\ loginDetects = TRUE
    /\ RecStill
    /\ SubmitIdle
    /\ LoginIdle
    /\ scrapedIssues \in ScrapedLists

\* const targetIssue = this.matchIssue(issues, this.config.targetIssueName)
MatchStep ==
    /\ targetIssue = NoIssue("unset")
    /\ targetIssue' \in FindTargetIssue([shown |-> TRUE,
                                         issues |-> scrapedIssues])
    /\ issuesPage' = [looked |-> TRUE, shown |-> TRUE,
                      named |-> \E x \in scrapedIssues : x.match = "exact"]
    /\ UNCHANGED <<resultsMode, totalAccounts, i, pc, results, browserManager,
                   bmBrowser, page, networkMonitor, live, launched, used,
                   attempted, heldAtOpen, opened, raised, delays, exitCode,
                   acts, challenge, validation, errorCode, configVars,
                   securityStop, notifyVars>>
    /\ UNCHANGED <<recVars, submitVars, matchVars, loginVars>>

MatchNext == MatchStep

SpecMatch == MatchInit /\ [][MatchNext]_vars

\* -------------------------------------------------- LoginHandler.login
\* the login page is open; login() is called.  Either LoginHandler can be
\* the one of the build
LoginInit ==
    /\ OrchStill
    /\ loginDetects \in BOOLEAN
    /\ RecStill
    /\ SubmitIdle
    /\ MatchIdle
    /\ lpc = "detect"
    /\ loginPage = NotLooked

\* login's catch clause: screenshot, throw ErrorClassifier.create("AUTH_ERROR")
LoginThrow(step) ==
    /\ lpc' = "raised"
    /\ errorCode' = ERROR_CODES.AUTH_ERROR.code

\* the statements of login after the look for security challenges
LoginSteps ==
    <<"waitForm", "selectDP", "fillUsername", "fillPassword", "submitForm",
      "verifyLoginSuccess">>

LoginStepAfter(step) ==
    LET k == CHOOSE j \in 1..Len(LoginSteps) : LoginSteps[j] = step
    IN  LoginSteps[k + 1]

\* detectSecurityChallenges, when the LoginHandler calls it: a CAPTCHA
\* element or an OTP input on the page makes it throw
DetectSecurityChallenges ==
    /\ lpc = "detect"
    /\ \E captcha \in BOOLEAN, otp \in BOOLEAN :
         /\ challenge' = (captcha \/ otp)
         /\ IF loginDetects /\ (captcha \/ otp)
              THEN /\ LoginThrow("detectSecurityChallenges")
                   /\ loginPage' = [loginPage EXCEPT
                                      !.captcha = captcha, !.otp = otp,
                                      !.threw = "detectSecurityChallenges"]
                   /\ securityStop' = TRUE
                   /\ acts' = acts \cup {"detectSecurityChallenges"}
              ELSE /\ lpc' = LoginSteps[1]
                   /\ loginPage' = [loginPage EXCEPT
                                      !.captcha = captcha, !.otp = otp]
                   /\ acts' = IF loginDetects
                                THEN acts \cup {"detectSecurityChallenges"}
                                ELSE acts
                   /\ UNCHANGED <<errorCode, securityStop>>
    /\ UNCHANGED <<resultsMode, totalAccounts, i, pc, results, browserManager,
                   bmBrowser, page, networkMonitor, live, launched, used,
                   attempted, heldAtOpen, opened, raised, delays, exitCode,
                   issuesPage, targetIssue, validation, configVars,
                   notifyVars>>
    /\ UNCHANGED <<recVars, submitVars, matchVars>>

\* one of the statements between the look for challenges and the
\* verification: it is performed, or it throws (selector timeout, DP not in
\* the list)
LoginStep ==
    /\ lpc \in {LoginSteps[k] : k \in 1..Len(LoginSteps) - 1}
    /\ \E done \in BOOLEAN :
         IF done
           THEN /\ lpc' = LoginStepAfter(lpc)
                /\ acts' = acts \cup {lpc}
                /\ UNCHANGED <<errorCode, loginPage>>
           ELSE /\ LoginThrow(lpc)
                /\ loginPage' = [loginPage EXCEPT !.threw = lpc]
                /\ UNCHANGED acts
    /\ UNCHANGED <<resultsMode, totalAccounts, i, pc, results, browserManager,
                   bmBrowser, page, networkMonitor, live, launched, used,
                   attempted, heldAtOpen, opened, raised, delays, exitCode,
                   challenge, issuesPage, targetIssue, validation, configVars,
                   securityStop, notifyVars>>
    /\ UNCHANGED <<recVars, submitVars, matchVars>>

\* the selectors verifyLoginSuccess waits for, one after the other
DashboardSelectors == 1..5

\* verifyLoginSuccess throws: no selector came and the URL of the page
\* still holds /login
VerifyThrows(indicator, url) == indicator = 0 /\ url = "login"

\* verifyLoginSuccess.  indicator is the first selector that came, 0 when
\* every wait timed out; then the URL and the error shown are read
VerifyLoginSuccess ==
    /\ lpc = "verifyLoginSuccess"
    /\ \E indicator \in DashboardSelectors \cup {0} :
       \E url \in (IF indicator = 0 THEN {"login", "other"} ELSE {"unseen"}) :
       \E rejection \in (IF url = "login" THEN {"element", "toast", "none"}
                                          ELSE {"unseen"}) :
         /\ loginPage' = [loginPage EXCEPT
                            !.indicator = indicator, !.url = url,
                            !.rejection = rejection,
                            !.threw = IF VerifyThrows(indicator, url)
                                        THEN "verifyLoginSuccess" ELSE @]
         /\ IF VerifyThrows(indicator, url)
              THEN LoginThrow("verifyLoginSuccess")
              ELSE /\ lpc' = "completed"
                   /\ UNCHANGED errorCode
    /\ UNCHANGED <<resultsMode, totalAccounts, i, pc, results, browserManager,
                   bmBrowser, page, networkMonitor, live, launched, used,
                   attempted, heldAtOpen, opened, raised, delays, exitCode,
                   acts, challenge, issuesPage, targetIssue, validation,
                   configVars, securityStop, notifyVars>>
    /\ UNCHANGED <<recVars, submitVars, matchVars>>

\* executeForAccount after login(): navigateToASBA, or its catch clause
\* when login threw
AfterLogin ==
    /\ lpc \in {"completed", "raised"}
    /\ IF lpc = "completed"
         THEN /\ lpc' = "navigated"
              /\ acts' = acts \cup {"navigateToASBA"}
         ELSE /\ lpc' = "failed"
              /\ UNCHANGED acts
    /\ UNCHANGED loginPage
    /\ UNCHANGED <<resultsMode, totalAccounts, i, pc, results, browserManager,
                   bmBrowser, page, networkMonitor, live, launched, used,
                   attempted, heldAtOpen, opened, raised, delays, exitCode,
                   challenge, issuesPage, targetIssue, validation, errorCode,
                   configVars, securityStop, notifyVars>>
    /\ UNCHANGED <<recVars, submitVars, matchVars>>

LoginNext ==
    \/ DetectSecurityChallenges
    \/ LoginStep
    \/ VerifyLoginSuccess
    \/ AfterLogin

SpecLogin == LoginInit /\ [][LoginNext]_vars

\* ------------------------------------------------ FormAutomation.submit
\* the transaction PIN of the account object a FormAutomation can be built
\* on: not set, or one of the PINs of .env
ConfiguredPins == RawPins \cup {""}

\* what document.body.innerText can read on the page after Apply
PageTexts ==
    {"Application Received", "Share submitted", "Unsuccessful",
     "Please wait"}

\* body.innerText.toLowerCase()
ToLowerCase(text) ==
    CASE text = "Application Received" -> "application received"
      [] text = "Share submitted" -> "share submitted"
      [] text = "Unsuccessful" -> "unsuccessful"
      [] text = "Please wait" -> "please wait"
      [] OTHER -> text

\* String.prototype.includes on the lower-cased page texts
Includes(content, word) ==
    \/ content = "application received" /\ word = "application received"
    \/ content = "share submitted" /\ word = "submitted"
    \/ content = "unsuccessful" /\ word = "success"

SuccessKeywords == {"success", "submitted", "application received"}

\* the indicators parseResult looks for on the page
Indicators ==
    [successToast : BOOLEAN, errorToast : BOOLEAN, dangerAlert : BOOLEAN,
     text : PageTexts]

\* parseResult with the text search left out: no toast means failure
ParseResultNoText(ind) ==
    IF ind.successToast
      THEN [kind |-> "returned", success |-> TRUE,
            message |-> "successToast", error |-> ""]
    ELSE IF ind.errorToast
      THEN [kind |-> "returned", success |-> FALSE,
            message |-> "", error |-> "errorToast"]
    ELSE IF ind.dangerAlert
      THEN [kind |-> "returned", success |-> FALSE,
            message |-> "", error |-> "dangerAlert"]
    ELSE [kind |-> "returned", success |-> FALSE, message |-> "",
          error |-> "Could not determine submission result"]

\* parseResult: message and error are the text of the element they were
\* read from
ParseResult(ind) ==
    IF ind.successToast
      THEN [kind |-> "returned", success |-> TRUE,
            message |-> "successToast", error |-> ""]
    ELSE IF ind.errorToast
      THEN [kind |-> "returned", success |-> FALSE,
            message |-> "", error |-> "errorToast"]
    ELSE IF ind.dangerAlert
      THEN [kind |-> "returned", success |-> FALSE,
            message |-> "", error |-> "dangerAlert"]
    ELSE IF \E word \in SuccessKeywords :
                Includes(ToLowerCase(ind.text), word)
      THEN [kind |-> "returned", success |-> TRUE,
            message |-> "Application appears to be submitted successfully",
            error |-> ""]
    ELSE [kind |-> "returned", success |-> FALSE, message |-> "",
          error |-> "Could not determine submission result"]

\* a FormAutomation whose form is filled; submit() is called
SubmitInit ==
    /\ OrchStill
    /\ loginDetects = TRUE
    /\ RecStill
    /\ MatchIdle
    /\ LoginIdle
    /\ transactionPin \in ConfiguredPins
    /\ spc = "clickProceed"
    /\ formPage = [seen |-> NotSeen, indicators |-> NoIndicators]
    /\ trail = <<>>
    /\ submitResult = NoResult

\* submit's catch clause: throw new Error(`Submission failed: ...`)
Throw(msg) ==
    /\ spc' = "raised"
    /\ submitResult' = [kind |-> "raised", success |-> FALSE,
                        message |-> "", error |-> msg]

\* enterPIN placed before the wait for the PIN input
SubmitStepsPinFirst ==
    <<"clickProceed", "checkForErrors", "enterPIN", "waitForPin",
      "clickApply", "parseResult">>

\* the steps of submit in the order of its statements
SubmitSteps ==
    <<"clickProceed", "checkForErrors", "waitForPin", "enterPIN",
      "clickApply", "parseResult">>

SubmitStepAfter(step) ==
    LET k == CHOOSE j \in 1..Len(SubmitSteps) : SubmitSteps[j] = step
    IN  SubmitSteps[k + 1]

\* the enabled submit button is clicked, or clickProceed throws
ClickProceed ==
    /\ spc = "clickProceed"
    /\ \E btn \in {"enabled", "disabled", "missing"} :
         /\ formPage' = [formPage EXCEPT !.seen.proceed = btn]
         /\ IF btn = "enabled"
              THEN /\ trail' = Append(trail, "clickProceed")
                   /\ spc' = SubmitStepAfter("clickProceed")
                   /\ UNCHANGED submitResult
              ELSE /\ Throw(IF btn = "disabled" THEN "Form incomplete"
                                               ELSE "Proceed button not found")
                   /\ UNCHANGED trail
    /\ UNCHANGED transactionPin
    /\ UNCHANGED <<orchVars, recVars, matchVars, loginVars>>

\* checkForErrors after Proceed: an error toast or a danger alert
CheckForErrors ==
    /\ spc = "checkForErrors"
    /\ \E formError \in {"none", "toast", "alert"} :
         /\ formPage' = [formPage EXCEPT !.seen.formError = formError]
         /\ IF formError = "none"
              THEN /\ spc' = SubmitStepAfter("checkForErrors")
                   /\ UNCHANGED submitResult
              ELSE Throw("Form validation failed")
    /\ UNCHANGED <<transactionPin, trail>>
    /\ UNCHANGED <<orchVars, recVars, matchVars, loginVars>>

\* waitForSelector(SELECTORS.FORM.TRANSACTION_PIN) resolves or times out
WaitForPin ==
    /\ spc = "waitForPin"
    /\ \E shown \in {"shown", "absent"} :
         /\ formPage' = [formPage EXCEPT !.seen.pinInput = shown]
         /\ IF shown = "shown"
              THEN /\ spc' = SubmitStepAfter("waitForPin")
                   /\ UNCHANGED submitResult
              ELSE Throw("TimeoutError")
    /\ UNCHANGED <<transactionPin, trail>>
    /\ UNCHANGED <<orchVars, recVars, matchVars, loginVars>>

\* enterPIN: the PIN is checked and then set on the input the wait found
EnterPIN ==
    /\ spc = "enterPIN"
    /\ IF transactionPin = ""
         THEN /\ Throw("Transaction PIN not configured")
              /\ UNCHANGED trail
       ELSE IF ~PinFormat(transactionPin)
         THEN /\ Throw("Transaction PIN must be exactly 4 digits")
              /\ UNCHANGED trail
       ELSE /\ trail' = Append(trail, "enterPIN")
            /\ spc' = SubmitStepAfter("enterPIN")
            /\ UNCHANGED submitResult
    /\ UNCHANGED <<transactionPin, formPage>>
    /\ UNCHANGED <<orchVars, recVars, matchVars, loginVars>>

\* the enabled submit button is clicked, or clickApply throws
ClickApply ==
    /\ spc = "clickApply"
    /\ \E btn \in {"enabled", "missing"} :
         /\ formPage' = [formPage EXCEPT !.seen.apply = btn]
         /\ IF btn = "enabled"
              THEN /\ trail' = Append(trail, "clickApply")
                   /\ spc' = SubmitStepAfter("clickApply")
                   /\ UNCHANGED submitResult
              ELSE /\ Throw("Apply button not found or disabled")
                   /\ UNCHANGED trail
    /\ UNCHANGED transactionPin
    /\ UNCHANGED <<orchVars, recVars, matchVars, loginVars>>

\* const result = await this.parseResult(); return result
ParseResultStep ==
    /\ spc = "parseResult"
    /\ \E ind \in Indicators :
         /\ formPage' = [formPage EXCEPT !.indicators = ind]
         /\ submitResult' = ParseResult(ind)
    /\ spc' = "returned"
    /\ UNCHANGED <<transactionPin, trail>>
    /\ UNCHANGED <<orchVars, recVars, matchVars, loginVars>>

\* executeForAccount builds the account's result from what submit returned
WorkflowResult(result) ==
    [kind    |-> "workflow",
     success |-> result.success,
     message |-> result.message,
     error   |-> result.error]

ReturnResult ==
    /\ spc = "returned"
    /\ spc' = "mapped"
    /\ submitResult' = WorkflowResult(submitResult)
    /\ UNCHANGED <<transactionPin, formPage, trail>>
    /\ UNCHANGED <<orchVars, recVars, matchVars, loginVars>>

SubmitNext ==
    \/ ClickProceed
    \/ CheckForErrors
    \/ WaitForPin
    \/ EnterPIN
    \/ ClickApply
    \/ ParseResultStep
    \/ ReturnResult

SpecSubmit == SubmitInit /\ [][SubmitNext]_vars

\* ----------------------------------------------------- orchestrator claims
Ended == pc \in {"exited", "aborted"}

\* the accounts whose iteration was entered and has no result yet
InProgress ==
    {k \in attempted : \A r \in 1..Len(results) : results[r].idx # k}

\* C1: if the workflow of account k raised, a failed result carrying the
\* error exists for k, and once the run has ended every account after k
\* was attempted
C1_FaultIsolation ==
    \A k \in raised :
        /\ \E r \in 1..Len(results) :
              /\ results[r].idx = k
              /\ ~results[r].success
              /\ results[r].error # ""
        /\ Ended => \A j \in (k + 1)..totalAccounts : j \in attempted

\* C2: a run ends with exactly N results, the k-th one being the result of
\* the k-th configured account
C2_OrderPreservation ==
    Ended =>
        /\ Len(results) = totalAccounts
        /\ \A k \in 1..Len(results) :
              /\ results[k].idx = k
              /\ results[k].account = MaskValue(Username(k))

C4_SessionRelease ==
    /\ pc = "launch" => live = {}
    /\ Ended => /\ live = {}
                /\ browserManager = 0
                /\ attempted = 1..totalAccounts

\* C5: at most one browser session is live and at most one account's
\* workflow is in progress
C5_SequentialExecution ==
    /\ Cardinality(live) <= 1
    /\ Cardinality(InProgress) <= 1

\* a second account's browser is live, the first one having been closed
C5_Witness == launched >= 2 /\ live = {launched} /\ InProgress = {2}

\* C6: every page use of an account is on the browser launched for that
\* account, no browser serves two accounts, and when a session is opened
\* the orchestrator holds no browser manager, page or monitor reference
C6_SessionIsolation ==
    /\ \A u \in used : u \in opened
    /\ \A u \in opened : \A v \in opened : u[1] = v[1] => u[2] = v[2]
    /\ \A h \in heldAtOpen : h[3] = 0
    /\ networkMonitor # 0 => networkMonitor = page

\* the second account works on its own page after the first account's
\* session was used and released
C6_Witness ==
    /\ \E u \in used : u[2] = 1
    /\ \E u \in used : u[2] = 2
    /\ \E h \in heldAtOpen : h[1] = 2

\* --------------------------------------------------- reconciliation claims
\* the positions of a list whose record carries this name
IndexesOf(apps, name) == {m \in 1..Len(apps) : apps[m].companyName = name}

\* C7: once a batch has been saved for an account, saving the same batch
\* again leaves the record list persisted for the account as the first save
\* left it
C7_MergeIdempotence ==
    writes >= 1 => PersistedApps(cUser) = firstSaved

\* the batch was written twice over a stored list it collides with
C7_Witness ==
    /\ writes >= 2
    /\ Len(scraped) = 2
    /\ Len(firstSaved) >= 2
    /\ \E j \in 1..Len(scraped) : \E m \in 1..Len(firstSaved) :
          scraped[j] = firstSaved[m]

\* a prior record is finalized when it is allotted or carries the terminal
\* status
Finalized(r) == r.isAlloted \/ r.status = "Not Alloted"

\* C8: every listed company without a prior record or with a prior record
\* that is not finalized is in toScrape, every listed company with a
\* finalized prior record has that record in cached, each listed company is
\* in exactly one of the two lists, and only companies of toScrape are
\* fetched
C8_ScrapeSelection ==
    /\ \A j \in 1..Len(pageCompanies) :
          LET c == pageCompanies[j]
              priors == IndexesOf(existingAtSelect, c.name)
          IN  /\ (priors = {} \/ \E k \in priors :
                                    ~Finalized(existingAtSelect[k]))
                    => /\ \E t \in 1..Len(toScrape) : toScrape[t] = c
                       /\ IndexesOf(cached, c.name) = {}
              /\ (\E k \in priors : Finalized(existingAtSelect[k]))
                    => /\ \E k \in priors : \E m \in 1..Len(cached) :
                              cached[m] = existingAtSelect[k]
                       /\ \A t \in 1..Len(toScrape) : toScrape[t] # c
    /\ Len(toScrape) + Len(cached) = Len(pageCompanies)
    /\ Len(scraped) >= Len(cached)
    /\ SubSeq(scraped, 1, Len(cached)) = cached
    /\ \A m \in (Len(cached) + 1)..Len(scraped) :
          \E t \in 1..scrapeIdx : toScrape[t].name = scraped[m].companyName

\* a listing with a pending company, which is scraped again, next to a
\* company kept from the cache for each way of being finalized
C8_Witness ==
    /\ \E t \in 1..Len(toScrape) :
          \E k \in IndexesOf(existingAtSelect, toScrape[t].name) :
              ~Finalized(existingAtSelect[k])
    /\ \E m \in 1..Len(cached) : cached[m].isAlloted
    /\ scrapeIdx = Len(toScrape)

\* C9: after saveResults merged a batch, every name of the batch has exactly
\* one record in the merged list, which is the last record of the batch
\* under that name, and every prior record whose name is not in the batch is
\* in the merged list unchanged
C9_LastWriteWins ==
    saves >= 1 =>
        /\ \A j \in 1..Len(scraped) :
              LET name == scraped[j].companyName
                  lastj == CHOOSE k \in IndexesOf(scraped, name) :
                              \A k2 \in IndexesOf(scraped, name) : k2 <= k
              IN  /\ Cardinality(IndexesOf(mergedApps, name)) = 1
                  /\ \A m \in IndexesOf(mergedApps, name) :
                        mergedApps[m] = scraped[lastj]
        /\ \A j \in 1..Len(priorAtSave) :
              IndexesOf(scraped, priorAtSave[j].companyName) = {}
                  => \E m \in 1..Len(mergedApps) :
                        mergedApps[m] = priorAtSave[j]

\* a fresh record replaced a different prior record of the same name while
\* another prior record was kept
C9_Witness ==
    /\ saves = 1
    /\ \E j \in 1..Len(scraped) : \E k \in 1..Len(priorAtSave) :
          /\ scraped[j].companyName = priorAtSave[k].companyName
          /\ scraped[j].status # priorAtSave[k].status
    /\ \E k \in 1..Len(priorAtSave) :
          IndexesOf(scraped, priorAtSave[k].companyName) = {}

\* C10: no two records of a persisted record list share an item name
C10_KeyUniqueness ==
    \A u \in Users :
        \A a \in 1..Len(PersistedApps(u)) : \A b \in 1..Len(PersistedApps(u)) :
            a # b => PersistedApps(u)[a].companyName
                        # PersistedApps(u)[b].companyName

\* a listing showed one name twice, both entries were scraped and the batch
\* was written over a list that already held the name
C10_Witness ==
    /\ cpc = "idle"
    /\ cResult = "success"
    /\ Len(pageCompanies) = 2
    /\ pageCompanies[1].name = pageCompanies[2].name
    /\ \E a \in 1..Len(scraped) : \E b \in 1..Len(scraped) :
          a # b /\ scraped[a].companyName = scraped[b].companyName
    /\ IndexesOf(priorAtSave, pageCompanies[1].name) # {}
    /\ PersistedApps(cUser) = mergedApps

\* C11: every item name that was in the account's persisted record list
\* when a cycle began is in the persisted record list during and after the
\* cycle
C11_RecordsNeverDeleted ==
    \A j \in 1..Len(persistedAtBegin) :
        IndexesOf(PersistedApps(cUser), persistedAtBegin[j].companyName) # {}

\* the prior records compareResults found under the name of a record
PriorsOf(r) ==
    {priorAtCompare[k] : k \in IndexesOf(priorAtCompare, r.companyName)}

IsNewApplication(r) == PriorsOf(r) = {}

IsNewAllotment(r) ==
    r.isAlloted /\ (PriorsOf(r) = {} \/ \E p \in PriorsOf(r) : ~p.isAlloted)

\* C12: the new allotments are the allotted records of the result set
\* whose prior record is not allotted or does not exist, each one once and
\* as scraped; the new applications are the records without prior record
C12_NewAllotment ==
    compares >= 1 =>
        /\ changes.newAllotments = SelectSeq(scraped, IsNewAllotment)
        /\ changes.newApplications = SelectSeq(scraped, IsNewApplication)

\* a pending prior record came back allotted next to an allotted record
\* seen for the first time
C12_Witness ==
    /\ compares >= 1
    /\ \E j \in 1..Len(scraped) :
          /\ scraped[j].isAlloted
          /\ \E p \in PriorsOf(scraped[j]) : ~p.isAlloted
    /\ \E j \in 1..Len(scraped) :
          scraped[j].isAlloted /\ PriorsOf(scraped[j]) = {}
    /\ Len(changes.newAllotments) = 2
    /\ Len(changes.newApplications) = 1

\* an entry of a list of changes is this record of the result set
SameRecord(e, r) ==
    /\ e.companyName = r.companyName
    /\ e.status = r.status
    /\ e.isAlloted = r.isAlloted
    /\ e.allotedQty = r.allotedQty
    /\ e.scrapedAt = r.scrapedAt

Reported(list, r) == \E m \in 1..Len(list) : SameRecord(list[m], r)

\* C13: an allotted record whose prior record is allotted with another
\* quantity is in updatedAllotments with previousQty the prior quantity and
\* allotedQty the fresh one, and in neither of the other two lists
C13_QuantityUpdate ==
    compares >= 1 =>
        \A j \in 1..Len(scraped) : \A p \in PriorsOf(scraped[j]) :
            (scraped[j].isAlloted /\ p.isAlloted
                /\ p.allotedQty # scraped[j].allotedQty)
            => /\ \E m \in 1..Len(changes.updatedAllotments) :
                     /\ SameRecord(changes.updatedAllotments[m], scraped[j])
                     /\ changes.updatedAllotments[m].previousQty
                            = p.allotedQty
               /\ ~Reported(changes.newAllotments, scraped[j])
               /\ ~Reported(changes.newApplications, scraped[j])

\* an allotted prior record was scraped again with another quantity
C13_Witness ==
    /\ compares >= 1
    /\ \E j \in 1..Len(scraped) : \E p \in PriorsOf(scraped[j]) :
          /\ scraped[j].isAlloted /\ p.isAlloted
          /\ p.allotedQty # scraped[j].allotedQty
    /\ Len(changes.updatedAllotments) >= 1

\* C14: a cycle writes the ledger only after it has computed its ChangeSet,
\* and the ChangeSet is the comparison of the cycle's results with the
\* list the ledger held for the account when the cycle began
C14_PreMergeComparison ==
    /\ writes >= 1 => compares >= 1
    /\ compares >= 1 =>
          /\ priorAtCompare = persistedAtBegin
          /\ changes = CompareResults(persistedAtBegin, scraped)

\* a cycle reported changes against a stored list and then wrote another
\* list over it
C14_Witness ==
    /\ compares >= 1
    /\ writes >= 1
    /\ persistedAtBegin # <<>>
    /\ PersistedApps(cUser) # persistedAtBegin
    /\ changes.newAllotments # <<>>

\* C15: a record of the result set whose prior record has the same
\* allotted flag and the same allotted quantity is in none of the three
\* lists of changes
C15_UnchangedNotReported ==
    compares >= 1 =>
        \A j \in 1..Len(scraped) : \A p \in PriorsOf(scraped[j]) :
            (p.isAlloted = scraped[j].isAlloted
                /\ p.allotedQty = scraped[j].allotedQty)
            => /\ ~Reported(changes.newAllotments, scraped[j])
               /\ ~Reported(changes.updatedAllotments, scraped[j])
               /\ ~Reported(changes.newApplications, scraped[j])

\* an allotted record reused from the cache was compared with itself while
\* another record of the cycle was reported
C15_Witness ==
    /\ compares >= 1
    /\ Len(cached) >= 1
    /\ cached[1].isAlloted
    /\ cached[1] \in PriorsOf(scraped[1])
    /\ changes.newApplications # <<>>

\* the states of the results file loadPreviousResults has nothing to read
\* an account mapping from
Malformed == {"missing", "corrupt", "null"}

\* C16: in a cycle begun on a missing or malformed results file the load
\* raises no error, every listed company is selected for scraping, and
\* every record of the result set is reported as a new application
C16_LedgerResilience ==
    fileAtBegin \in Malformed =>
        /\ cError \notin {"TypeError", "FORM_ERROR: TypeError"}
        /\ cached = <<>>
        /\ toScrape = pageCompanies
        /\ compares >= 1 => changes.newApplications = scraped

\* C17: a cycle whose saveResults failed to write the ledger returns a
\* failed result
C17_WriteFailure ==
    (cpc = "idle" /\ saves >= 1 /\ writes = 0) => cResult = "failure"

\* C18: a raise inside the item loop does not end the loop: when the cycle
\* is over every company to scrape was attempted, the cycle returned the
\* records it collected, and a written save holds them
C18_PartialScrapeFailure ==
    (cpc = "idle" /\ toScrape # <<>>) =>
        /\ scrapeIdx = Len(toScrape)
        /\ cResult = "success"
        /\ writes >= 1 =>
              \A j \in 1..Len(scraped) :
                  IndexesOf(PersistedApps(cUser), scraped[j].companyName)
                      # {}

\* a list in the order of localeCompare on the item names
Sorted(apps) ==
    \A a \in 1..Len(apps) - 1 :
        LocaleCompare(apps[a].companyName, apps[a + 1].companyName) <= 0

\* C19: the record list a save has written for the account is sorted by
\* item name
C19_SortedOutput ==
    writes >= 1 => Sorted(PersistedApps(cUser))

\* a batch out of order was merged into a stored list out of order
C19_Witness ==
    /\ saves = 1
    /\ writes = 1
    /\ ~Sorted(priorAtSave)
    /\ ~Sorted(scraped)
    /\ Len(PersistedApps(cUser)) >= 3

\* C20: every failed entry of the result list carries an error message and
\* a timestamp, and no failure leaves the account loop
C20_StructuredFailures ==
    /\ \A r \in 1..Len(results) :
          ~results[r].success =>
              /\ results[r].error # ""
              /\ results[r].timestamp
    /\ pc \notin {"fatal", "aborted"}

\* summary.alloted of the result execute returns
SummaryAlloted(rs) == Cardinality({k \in 1..Len(rs) : rs[k].isAlloted})

\* C30: a scraped record carries the allotted flag only when its status is
\* the allotment; a record scraped as "Not Alloted" has the flag unset and
\* quantity 0, is not among the new allotments the comparison reports and
\* is not counted as allotted by the summary
C30_AllottedFlag ==
    /\ \A j \in 1..Len(scraped) :
          /\ scraped[j].isAlloted => scraped[j].status = "Alloted"
          /\ scraped[j].status = "Not Alloted" =>
                /\ ~scraped[j].isAlloted
                /\ scraped[j].allotedQty = 0
                /\ ~Reported(changes.newAllotments, scraped[j])
    /\ SummaryAlloted(scraped) =
          Cardinality({j \in 1..Len(scraped) : scraped[j].status = "Alloted"})

\* ------------------------------------------------------ process start claims
\* C21: a process stopped by a fault before the first account was attempted
\* (configuration parsing or account validation, missing .env, directory
\* initialisation) has exit status 2
C21_SetupFault ==
    setupFault # "none" => attempted = {} /\ exitCode = 2

\* C22: with the results mode configured every account goes through the
\* scrape-and-merge workflow and no action of the apply-and-submit workflow
\* (opening the form, Proceed, PIN entry, Apply) is performed; without it
\* every account goes through the apply-and-submit workflow and the ledger
\* is never written
C22_RunModes ==
    /\ envResultsMode =>
          /\ acts \cap {"openForm", "clickProceed", "enterPIN", "clickApply"}
                = {}
          /\ pc \in StepNames =>
                pc \in {ResultsSteps[k] : k \in 1..Len(ResultsSteps)}
    /\ ~envResultsMode =>
          /\ saves = 0 /\ writes = 0 /\ fileState = "missing"
          /\ pc \in StepNames =>
                pc \in {ApplySteps[k] : k \in 1..Len(ApplySteps)}

\* what the claim calls an invalid account: a required field missing, a PIN
\* that is not four digits, a quantity that is not a positive number
InvalidAccount(raw) ==
    \/ ~raw.required
    \/ raw.pin \notin {"1234"}
    \/ raw.appliedKitta.t = "text"
    \/ raw.appliedKitta.v <= 0

\* C29: every configured account has been validated when the first account
\* is attempted, and with an invalid account configured no account is
\* attempted and no browser session is opened
C29_ValidationBeforeStart ==
    /\ attempted # {} => validated = totalAccounts
    /\ (\E k \in 1..Len(rawAccounts) : InvalidAccount(rawAccounts[k])) =>
          attempted = {} /\ launched = 0

\* ------------------------------------------------------- account run claims
\* C23: the notifier is invoked at most once, with notifications enabled,
\* after every account has been processed and with the full list of N
\* results; the exit status is the one the results give, whatever became
\* of the notification
C23_Notifier ==
    /\ Len(notified) <= 1
    /\ notified # <<>> =>
          /\ notificationEnabled
          /\ attempted = 1..totalAccounts /\ InProgress = {}
          /\ pc \in {"main", "exited"}
          /\ notified[1] = results
          /\ Len(notified[1]) = totalAccounts
    /\ pc = "exited" => exitCode = ExitStatus(results)

\* the notification of a run of two accounts, one of them failed, did not
\* go out and the process has exited with the status of the results
C23_Witness ==
    /\ pc = "exited"
    /\ Len(notified) = 1
    /\ notifyOutcome = "failed"
    /\ SuccessCount(results) = 1
    /\ FailCount(results) = 1
    /\ exitCode = 1

\* C24: a delay is made only between two accounts, after the session of
\* the one is closed and before the session of the other is opened, and a
\* run over N accounts has made N-1 delays when it ends
C24_InterAccountDelay ==
    /\ pc = "delay" =>
          /\ i < totalAccounts - 1
          /\ live = {} /\ browserManager = 0
          /\ delays = i
    /\ pc = "launch" => delays = i
    /\ Ended => delays = totalAccounts - 1

\* the steps that change the application form or submit it
Mutating ==
    {"selectBank", "selectAccount", "fillKitta", "fillCRN",
     "acceptDisclaimer", "clickProceed", "enterPIN", "clickApply"}

\* C25: when the configured quantity is below the minimum quantity read
\* from the form, fillForm has failed, the account has a failed result and
\* no step that changes or submits the form was performed
C25_ValidationFailFast ==
    (validation.checked /\ validation.read /\ validation.below) =>
        /\ acts \cap Mutating = {}
        /\ pc = "cleanup"
        /\ Len(results) = Account
        /\ ~results[Account].success

\* the form of the second account was opened and showed a minimum above
\* the configured quantity
C25_Witness ==
    /\ validation.checked /\ validation.read /\ validation.below
    /\ Account = 2
    /\ "openForm" \in acts
    /\ "validateKitta" \in acts

\* the lookup found the list without an issue of the configured name, or
\* matched an issue that cannot be applied for
TargetMissing ==
    /\ issuesPage.looked
    /\ \/ ~issuesPage.named
       \/ targetIssue.match \in MatchLevels /\ ~targetIssue.canApply

\* C26: when the named issue is not on the list or the matched issue is
\* not applicable, the account has a failed result from a business-logic
\* error that is not retryable, and no form was opened, filled or submitted
C26_TargetNotFound ==
    TargetMissing =>
        /\ Len(results) = Account
        /\ ~results[Account].success
        /\ errorCode = ERROR_CODES.BUSINESS_LOGIC_ERROR.code
        /\ ~ERROR_CODES.BUSINESS_LOGIC_ERROR.retryable
        /\ acts \cap ({"openForm"} \cup Mutating) = {}

\* C27: when a CAPTCHA or OTP challenge was on the login page as the login
\* of the account started, the login made no DP selection, typed no
\* username or password and did not submit, and the account has a failed
\* result once the login has ended
C27_ChallengeStopsLogin ==
    challenge =>
        /\ acts \cap {"selectDP", "fillUsername", "fillPassword",
                      "submitForm"} = {}
        /\ pc = "cleanup"
        /\ Len(results) = Account
        /\ ~results[Account].success

\* C28: once a security challenge was detected, no further account is
\* attempted, no session is opened and no page is used
C28_ChallengeStopsRun ==
    [][securityStop =>
          /\ attempted' = attempted
          /\ launched' = launched
          /\ used' = used]_vars

\* C31: the cycle that follows a successful cycle and sees the same
\* listing and the same details reports no change
C31_ChangesReportedOnce ==
    (prior = "success" /\ compares = 1) => changes = NoChanges

\* a cycle of the scraper has begun
CycleBegun == cpc # "idle" \/ cResult # "none"

\* C32: a cycle of an account leaves the entry of every other account in
\* the results file (its record list, kept with its lastUpdated stamp) as
\* it was when the cycle began, also when a read of the file fails
C32_LedgerFrame ==
    CycleBegun =>
        \A u \in Users \ {cUser} : ledger[u] = ledgerAtBegin[u]

\* the errors of a pass that did not reach the listing page or whose
\* scrapeAllResults raised
PassFailures == {"NAVIGATION_ERROR", "FORM_ERROR", "FORM_ERROR: TypeError"}

\* C33: when the listing page was not reached or scrapeAllResults raised,
\* the cycle has returned a failure and the results file is as it was when
\* the cycle began
C33_FailedPassNoWrite ==
    (CycleBegun /\ cError \in PassFailures) =>
        /\ cpc = "idle"
        /\ cResult = "failure"
        /\ writes = 0 /\ saves = 0
        /\ fileState = fileAtBegin
        /\ ledger = ledgerAtBegin

\* scrapeAllResults raised after it had made a record, in a cycle that
\* began on a file an earlier cycle had written
C33_Witness ==
    /\ cError = "FORM_ERROR"
    /\ Len(scraped) > Len(cached)
    /\ fileAtBegin = "ok"
    /\ ledgerAtBegin[cUser] # <<LegacyRecord(1)>>
    /\ ledgerAtBegin[cUser] # <<>>

\* submit has ended, by a return or by a throw
SubmitEnded == spc \in {"returned", "mapped", "raised"}

\* every look of submit that was made went well
SubmitChecksPassed ==
    /\ formPage.seen.proceed = "enabled"
    /\ formPage.seen.formError = "none"
    /\ formPage.seen.pinInput = "shown"
    /\ PinFormat(transactionPin)

C35_OutcomeClassification ==
    spc \in {"returned", "mapped"} =>
        LET ind == formPage.indicators
            keyword == \E word \in SuccessKeywords :
                          Includes(ToLowerCase(ind.text), word)
        IN  /\ ind.successToast => submitResult.success
            /\ (~ind.successToast /\ ind.errorToast) =>
                  /\ ~submitResult.success
                  /\ submitResult.error = "errorToast"
            /\ (~ind.successToast /\ ~ind.errorToast /\ ind.dangerAlert) =>
                  /\ ~submitResult.success
                  /\ submitResult.error = "dangerAlert"
            /\ (~ind.successToast /\ ~ind.errorToast /\ ~ind.dangerAlert) =>
                  /\ submitResult.success <=> keyword
                  /\ ~keyword => submitResult.error =
                                    "Could not determine submission result"

\* no toast and no alert, and the text of the page holds a keyword
C35_Witness ==
    /\ spc = "mapped"
    /\ ~formPage.indicators.successToast
    /\ ~formPage.indicators.errorToast
    /\ ~formPage.indicators.dangerAlert
    /\ formPage.indicators.text = "Share submitted"
    /\ submitResult.success

\* the rule of matchIssue an issue satisfies first, in the order of the
\* rules
Rank(level) ==
    CASE level = "exact" -> 1
      [] level = "contains" -> 2
      [] level = "contained" -> 3
      [] level = "word" -> 4
      [] OTHER -> 5

\* the listed issues that can be applied for and match the target name
ApplicableMatches ==
    {x \in scrapedIssues : x.canApply /\ Rank(x.match) <= 4}

\* C36: matchIssue returns an applicable issue whenever one matches, by the
\* earliest rule that an applicable issue satisfies; it returns an issue
\* that cannot be applied for only when no applicable issue matches, and
\* nothing only when no listed name contains or is contained in the target
C36_IssueMatching ==
    targetIssue # NoIssue("unset") =>
        /\ ApplicableMatches # {} =>
              /\ targetIssue \in ApplicableMatches
              /\ \A x \in ApplicableMatches :
                    Rank(targetIssue.match) <= Rank(x.match)
        /\ (targetIssue # NoIssue("null") /\ ~targetIssue.canApply) =>
              /\ ApplicableMatches = {}
              /\ targetIssue \in scrapedIssues
        /\ targetIssue = NoIssue("null") =>
              \A x \in scrapedIssues : Rank(x.match) > 3

\* an applicable issue matched by a shared word is returned although an
\* issue of the exact name is listed that cannot be applied for
C36_Witness ==
    /\ targetIssue = [match |-> "word", canApply |-> TRUE]
    /\ [match |-> "exact", canApply |-> FALSE] \in scrapedIssues

\* C37: login completes only when a dashboard indicator was seen after
\* the form was submitted; when none came, login has thrown an
\* authentication error and no later step was run for the account
C37_LoginVerification ==
    /\ lpc \in {"completed", "navigated"} =>
          /\ loginPage.indicator \in DashboardSelectors
          /\ "submitForm" \in acts
    /\ loginPage.indicator = 0 =>
          /\ lpc \in {"raised", "failed"}
          /\ errorCode = ERROR_CODES.AUTH_ERROR.code
          /\ "navigateToASBA" \notin acts

\* C38: when the process exits after an apply run with notifications
\* enabled and a result, the batch notification that the summary started
\* has been delivered or has failed and been logged
C38_NotificationBeforeExit ==
    (pc = "exited" /\ ~resultsMode /\ notificationEnabled
        /\ Len(results) > 0) =>
        /\ notified # <<>>
        /\ notifyOutcome \in {"delivered", "failed"}

\* C39: a run terminates with every account processed: the summary was
\* emitted, there is a result for every account and the process has exited
\* with a status
C39_Termination ==
    <>(/\ pc = "exited"
       /\ Len(results) = totalAccounts
       /\ exitCode \in {0, 1, 2})

====
